---- MODULE Spec2Model ----
(***************************************************************************)
(* A model of the FAT12 driver of dito (src/src/fat.c).                    *)
(*                                                                         *)
(* The volume is modelled byte for byte: the FAT is the byte buffer that   *)
(* fat_read_fat and fat_write_fat index with cluster + cluster/2, and a    *)
(* cluster on disk is a sequence of 32-byte cells, the size of a directory *)
(* entry; file offsets and lengths count bytes.  Only the geometry is      *)
(* scaled down: a cluster holds ClusterSlots directory entries instead of  *)
(* 128, and the root directory RootCountSmall or RootCountBig entries      *)
(* instead of 240 or 512 (the quotients root_count*32/cluster_size, 1 and  *)
(* 4, are kept).                                                           *)
(*                                                                         *)
(* Operations of the driver are operators on a volume record               *)
(*   [fat, disk, inodes, next, status, big, w]                             *)
(* that return the volume after the call (and the call's result).          *)
(* status is "ok" until a call dereferences a null pointer ("crashed")     *)
(* or loops for ever ("hung").  w is the outcome of undefined reads made   *)
(* during one call (reads past the end of a heap buffer): -1 for a         *)
(* segmentation fault, otherwise the value that is read.                   *)
(***************************************************************************)
EXTENDS Integers, Sequences, FiniteSets, TLC

(***************************************************************************)
(* Geometry of the modelled volume.                                        *)
(***************************************************************************)
DirEntrySize == 32       \* sizeof(fat_dir_t) == sizeof(fat_longname_t)
ClusterSlots == 6        \* directory entries per cluster (128 in the code)
RootCountSmall == 11     \* bpb->root_count of a small volume (240)
RootCountBig == 24       \* bpb->root_count of a volume above 4 MiB (512)
NumClusters == 259       \* fat_num_clusters(fs)
FatBytes == 512          \* sectors_per_fat * BLOCK_SIZE, one sector

FAT_END == 4088          \* 0xFF8
FAT_DIR_DIRECTORY == 16  \* 0x10
FAT_DIR_LONGNAME == 15   \* 0x0F
LongnameChars == 13      \* characters per long-name entry
NoParent == -1           \* ino->parent = -1 in fat_touch

(***************************************************************************)
(* Small helpers on bytes and sequences.                                   *)
(***************************************************************************)
Min(a, b) == IF a < b THEN a ELSE b
Max(a, b) == IF a > b THEN a ELSE b
CeilDiv(a, b) == (a + b - 1) \div b

Fill(n, b) == [k \in 1..n |-> b]

\* buf with the bytes of seq stored at C offset from
Store(buf, from, seq) ==
  [k \in 1..Len(buf) |->
     IF k > from /\ k <= from + Len(seq) THEN seq[k - from] ELSE buf[k]]

\* little-endian encodings
LE16(v) == << v % 256, (v \div 256) % 256 >>
LE32(v) == << v % 256, (v \div 256) % 256, (v \div 65536) % 256, (v \div 16777216) % 256 >>

(***************************************************************************)
(* Geometry macros of fat.h.  Offsets on disk are counted in directory     *)
(* slots from the first sector after the FATs.                             *)
(***************************************************************************)
fat_clustersize == ClusterSlots * DirEntrySize
root_count(big) == IF big THEN RootCountBig ELSE RootCountSmall
media_descriptor(big) == IF big THEN 248 ELSE 240
fat_root_sectors(big) == root_count(big)

(***************************************************************************)
(* FAT table: fat_read_fat, fat_write_fat, fat_find_free.                  *)
(***************************************************************************)
FatOffset(cluster) == cluster + cluster \div 2
InFat(cluster) == cluster >= 0 /\ FatOffset(cluster) + 1 < FatBytes

\* the FAT indices that lie inside the FAT buffer
FatEntries == { n \in 0..FatBytes : InFat(n) }

\* the value of entry `cluster`; an entry outside the buffer reads w
fat_read_fat(v, cluster) ==
  IF ~InFat(cluster) THEN v.w
  ELSE LET value == v.fat[FatOffset(cluster)] + 256 * v.fat[FatOffset(cluster) + 1]
       IN IF cluster % 2 = 1 THEN value \div 16 ELSE value % 4096


\* a write that stores the whole 16-bit word, zeroing the nibble of the
\* neighbouring entry
WriteWholeWord(fat, cluster, set) ==
  IF ~InFat(cluster) THEN fat
  ELSE LET o == FatOffset(cluster)
           value == IF cluster % 2 = 1 THEN (set * 16) % 65536 ELSE set % 4096
       IN [fat EXCEPT ![o] = value % 256, ![o + 1] = value \div 256]

\* the FAT bytes after fat_write_fat(fs, cluster, set); a write outside the
\* buffer does not land in it
fat_write_fat(fat, cluster, set) ==
  IF ~InFat(cluster) THEN fat
  ELSE LET o == FatOffset(cluster)
           old == fat[o] + 256 * fat[o + 1]
           value == IF cluster % 2 = 1 THEN (old % 16) + ((set * 16) % 65536)
                    ELSE (old \div 4096) * 4096 + (set % 4096)
       IN [fat EXCEPT ![o] = value % 256, ![o + 1] = value \div 256]

FindFreeFrom == 3

\* the scan `while(i < fat_num_clusters(fs))` from i = 3 stops at the first
\* entry that reads 0
IsFirstFree(v, i) ==
  /\ fat_read_fat(v, i) = 0
  /\ \A j \in FindFreeFrom..(i - 1) : fat_read_fat(v, j) # 0

\* a scan that starts at cluster 2, the first data cluster
FindFreeFromTwo(v) ==
  IF \E i \in 2..(NumClusters - 1) : fat_read_fat(v, i) = 0
  THEN CHOOSE i \in 2..(NumClusters - 1) :
         fat_read_fat(v, i) = 0 /\ \A j \in 2..(i - 1) : fat_read_fat(v, j) # 0
  ELSE 0

fat_find_free(v) ==
  IF \E i \in FindFreeFrom..(NumClusters - 1) : fat_read_fat(v, i) = 0
  THEN CHOOSE i \in FindFreeFrom..(NumClusters - 1) : IsFirstFree(v, i)
  ELSE 0

(***************************************************************************)
(* Cluster chains: fat_clustercount and fat_get_clusters.                  *)
(* ChainWalk follows the loop `while(cluster < FAT_END)`; the result is    *)
(* the list of clusters, or <<-1>> for a fault and <<-2>> for a loop that  *)
(* never ends (the walk comes back to a cluster it has visited).           *)
(***************************************************************************)
Faulted == << -1 >>
Looping == << -2 >>
IsChain(c) == c # Faulted /\ c # Looping

RECURSIVE ChainWalk(_, _, _)
ChainWalk(v, cluster, acc) ==
  IF cluster < 0 THEN Faulted
  ELSE IF cluster >= FAT_END THEN acc
  ELSE IF \E k \in 1..Len(acc) : acc[k] = cluster THEN Looping
  ELSE ChainWalk(v, fat_read_fat(v, cluster), Append(acc, cluster))

RootClusterCount(big) == (root_count(big) * DirEntrySize) \div fat_clustersize

\* the cluster list of an inode (fat_get_clusters without the final 0)
fat_get_clusters(v, ino) ==
  IF ino = 1 THEN [i \in 1..RootClusterCount(v.big) |-> i - 1]
  ELSE IF ino < 1 \/ ino > Len(v.inodes) THEN Faulted
  ELSE ChainWalk(v, v.inodes[ino].cluster, << >>)

\* clusters[i] of the calloc'ed array (i counts from 0): the entry after the
\* list is 0, entries further on are outside the array
ClusterAt(v, clusters, i) ==
  IF i < Len(clusters) THEN clusters[i + 1]
  ELSE IF i = Len(clusters) THEN 0
  ELSE v.w

(***************************************************************************)
(* Buffers.  A buffer (a cluster, a directory, a staging area) is a        *)
(* sequence of cells of DirEntrySize bytes.  CopyBytes is memcpy between   *)
(* two buffers at byte offsets.                                            *)
(***************************************************************************)
ZeroCell == Fill(DirEntrySize, 0)
ZeroCells(n) == Fill(n, ZeroCell)

ByteAt(buf, pos) == buf[(pos \div DirEntrySize) + 1][(pos % DirEntrySize) + 1]

\* cell i (from 1) of dst after memcpy(dst + dstOff, src + srcOff, len)
CopyCell(dst, dstOff, src, srcOff, len, i) ==
  LET lo == DirEntrySize * (i - 1)
      hi == lo + DirEntrySize
  IN IF len = 0 \/ hi <= dstOff \/ lo >= dstOff + len THEN dst[i]
     ELSE IF lo >= dstOff /\ hi <= dstOff + len /\ (srcOff - dstOff) % DirEntrySize = 0
     THEN src[i + ((srcOff - dstOff) \div DirEntrySize)]
     ELSE [k \in 1..DirEntrySize |->
             IF lo + k - 1 >= dstOff /\ lo + k - 1 < dstOff + len
             THEN ByteAt(src, lo + k - 1 - dstOff + srcOff)
             ELSE dst[i][k]]

CopyBytes(dst, dstOff, src, srcOff, len) ==
  [i \in 1..Len(dst) |-> CopyCell(dst, dstOff, src, srcOff, len, i)]

(***************************************************************************)
(* Cluster I/O: fat_readclusters and fat_writeclusters.  The disk maps the *)
(* start of a cluster-sized block to its cells; a block that was never     *)
(* written, or was written with zeros, is absent and reads as zeros.       *)
(* Cluster numbers below 2 start at the root directory area; the data      *)
(* clusters follow the root area.                                          *)
(***************************************************************************)
ZeroCluster == ZeroCells(ClusterSlots)

ClusterStart(big, cluster) ==
  IF cluster >= 2 THEN fat_root_sectors(big) + (cluster - 2) * ClusterSlots ELSE 0

OnPartition(big, cluster) ==
  cluster >= 0 /\ cluster <= NumClusters + 1

fat_readclusters(v, cluster) ==
  IF OnPartition(v.big, cluster) /\ ClusterStart(v.big, cluster) \in DOMAIN v.disk
  THEN v.disk[ClusterStart(v.big, cluster)]
  ELSE ZeroCluster

fat_writeclusters(disk, big, cluster, cells) ==
  IF ~OnPartition(big, cluster) THEN disk
  ELSE LET at == ClusterStart(big, cluster)
           keep == IF cells = ZeroCluster THEN DOMAIN disk \ {at}
                   ELSE DOMAIN disk \cup {at}
       IN [a \in keep |-> IF a = at THEN cells ELSE disk[a]]

(***************************************************************************)
(* fat_read and fat_write.  A result of fat_read is [status, len, data]:   *)
(* the status of the call, the value returned and the bytes copied to the  *)
(* start of the caller's buffer.  A result of fat_write, and of every      *)
(* operation below that changes the volume, is [v, ret].                   *)
(***************************************************************************)
\* size used by fat_read and fat_write for an inode with cluster list cl
IoSize(v, ino, cl) ==
  IF v.inodes[ino].size # 0 THEN v.inodes[ino].size ELSE Len(cl) * fat_clustersize

\* the clusters of the staging buffer, in order
RECURSIVE ReadChunks(_, _, _, _)
ReadChunks(v, cl, i, n) ==
  IF n = 0 THEN << >>
  ELSE fat_readclusters(v, ClusterAt(v, cl, i)) \o ReadChunks(v, cl, i + 1, n - 1)

\* some index of the staging range lies outside the clusters array and the
\* read of it faults
ChunksFault(v, cl, start, n) ==
  v.w = -1 /\ n > 0 /\ start + n - 1 > Len(cl)

NoData(st) == [status |-> st, len |-> 0, data |-> << >>]

\* fat_read from `uint32_t start_cluster` on, length already clamped
ReadClamped(v, cl, length, offset) ==
  LET start_cluster == offset \div fat_clustersize
      cluster_offset == offset % fat_clustersize
      num_clusters == CeilDiv(length + cluster_offset, fat_clustersize)
  IN IF ChunksFault(v, cl, start_cluster, num_clusters) THEN NoData("crashed")
     ELSE [status |-> "ok", len |-> length,
           data |-> CopyBytes(ZeroCells(CeilDiv(length, DirEntrySize)), 0,
                              ReadChunks(v, cl, start_cluster, num_clusters),
                              cluster_offset, length)]

\* `if(offset + length > size) length = size - offset` wraps around when
\* offset is beyond size
ReadSized(v, cl, size, length, offset) ==
  IF offset > size /\ offset + length > size THEN NoData("crashed")
  ELSE ReadClamped(v, cl, IF offset + length > size THEN size - offset ELSE length,
                   offset)

ReadListed(v, ino, cl, length, offset) ==
  IF cl = Faulted THEN NoData("crashed")
  ELSE IF cl = Looping THEN NoData("hung")
  ELSE ReadSized(v, cl, IoSize(v, ino, cl), length, offset)

fat_read(v, ino, length, offset) ==
  IF ino = 0 \/ length = 0 THEN NoData("ok")
  ELSE ReadListed(v, ino, fat_get_clusters(v, ino), length, offset)

\* the disk after the loop of fat_writeclusters over the staging buffer
RECURSIVE WriteChunks(_, _, _, _, _, _)
WriteChunks(v, disk, cl, buff, i, k) ==
  IF k * ClusterSlots >= Len(buff) THEN disk
  ELSE WriteChunks(v,
         fat_writeclusters(disk, v.big, ClusterAt(v, cl, i),
                           SubSeq(buff, k * ClusterSlots + 1, (k + 1) * ClusterSlots)),
         cl, buff, i + 1, k + 1)

Failed(v, st) == [v |-> [v EXCEPT !.status = st], ret |-> 1]

\* the calloc'ed buffer of `cells` cells after a fat_read with result rd
\* filled its start
Filled(cells, rd) == CopyBytes(ZeroCells(cells), 0, rd.data, 0, rd.len)

\* fat_write from the fat_read of the staging buffer (result old) on
WriteStaged(v, cl, buffer, length, offset, num_clusters, old) ==
  IF old.status # "ok" THEN [Failed(v, old.status) EXCEPT !.ret = 0]
  ELSE IF ChunksFault(v, cl, offset \div fat_clustersize, num_clusters)
  THEN [Failed(v, "crashed") EXCEPT !.ret = 0]
  ELSE [v |-> [v EXCEPT !.disk =
                 WriteChunks(v, v.disk, cl,
                             CopyBytes(Filled(num_clusters * ClusterSlots, old),
                                       offset % fat_clustersize, buffer, 0, length),
                             offset \div fat_clustersize, 0)],
        ret |-> length]

WriteClamped(v, ino, cl, buffer, length, offset) ==
  LET cluster_offset == offset % fat_clustersize
      num_clusters == CeilDiv(length + cluster_offset, fat_clustersize)
  IN WriteStaged(v, cl, buffer, length, offset, num_clusters,
                 fat_read(v, ino, num_clusters * fat_clustersize, offset - cluster_offset))

WriteSized(v, ino, cl, size, buffer, length, offset) ==
  IF offset > size /\ offset + length > size THEN [Failed(v, "crashed") EXCEPT !.ret = 0]
  ELSE WriteClamped(v, ino, cl, buffer,
                    IF offset + length > size THEN size - offset ELSE length, offset)

WriteListed(v, ino, cl, buffer, length, offset) ==
  IF cl = Faulted THEN [Failed(v, "crashed") EXCEPT !.ret = 0]
  ELSE IF cl = Looping THEN [Failed(v, "hung") EXCEPT !.ret = 0]
  ELSE WriteSized(v, ino, cl, IoSize(v, ino, cl), buffer, length, offset)

fat_write(v, ino, buffer, length, offset) ==
  IF ino = 0 THEN [v |-> v, ret |-> 0]
  ELSE WriteListed(v, ino, fat_get_clusters(v, ino), buffer, length, offset)

(***************************************************************************)
(* Directory-entry codec.  Entry number de (from 0) of a directory buffer  *)
(* is its cell de + 1; the fields lie at these byte offsets:               *)
(*   short entry: name 0..10, attrib 11, entry_type 12, csec 13,           *)
(*     ctime 14, cdate 16, adate 18, cluster_high 20, mtime 22, mdate 24,  *)
(*     cluster_low 26, size 28                                             *)
(*   long-name entry: num 0, name1 1..10, attrib 11, entry_type 12,        *)
(*     checksum 13, name2 14..25, cluster 26, name3 28..31                 *)
(* Names are sequences of non-NUL bytes.                                   *)
(***************************************************************************)
fat_dir_t ==
  [name |-> 0, attrib |-> 11, entry_type |-> 12, csec |-> 13, ctime |-> 14,
   cdate |-> 16, adate |-> 18, cluster_high |-> 20, mtime |-> 22, mdate |-> 24,
   cluster_low |-> 26, size |-> 28]
fat_longname_t ==
  [num |-> 0, name1 |-> 1, attrib |-> 11, entry_type |-> 12, checksum |-> 13,
   name2 |-> 14, cluster |-> 26, name3 |-> 28]
ShortNameLen == 11
Space == 32
Dot == 46
Deleted == 229           \* 0xE5

NumSlots(buf) == Len(buf)

\* the byte that a read outside a buffer gives when undefined reads give w
WildByte(w) == w % 128

\* byte at offset off of entry de; an entry past the buffer reads WildByte(w)
SlotByte(buf, de, off, w) ==
  IF de < NumSlots(buf) THEN buf[de + 1][off + 1] ELSE WildByte(w)

SlotU16(buf, de, off, w) ==
  SlotByte(buf, de, off, w) + 256 * SlotByte(buf, de, off + 1, w)

SlotU32(buf, de, off, w) ==
  SlotU16(buf, de, off, w) + 65536 * SlotU16(buf, de, off + 2, w)

\* buf with entry de replaced by cell
PutSlot(buf, de, cell) == [buf EXCEPT ![de + 1] = cell]

\* index of the first b in seq, 0 if there is none
FirstIndex(seq, b) ==
  IF \E k \in 1..Len(seq) : seq[k] = b
  THEN CHOOSE k \in 1..Len(seq) : seq[k] = b /\ \A j \in 1..(k - 1) : seq[j] # b
  ELSE 0

\* index of the last b in seq, 0 if there is none
LastIndex(seq, b) ==
  IF \E k \in 1..Len(seq) : seq[k] = b
  THEN CHOOSE k \in 1..Len(seq) : seq[k] = b /\ \A j \in (k + 1)..Len(seq) : seq[j] # b
  ELSE 0

\* the bytes of a C string stored in seq: those before the first NUL
CStr(seq) ==
  IF FirstIndex(seq, 0) = 0 THEN seq ELSE SubSeq(seq, 1, FirstIndex(seq, 0) - 1)

PadTo(seq, n, b) == seq \o Fill(Max(0, n - Len(seq)), b)

RECURSIVE ChecksumFrom(_, _, _)
ChecksumFrom(shortname, k, sum) ==
  IF k > ShortNameLen THEN sum
  ELSE ChecksumFrom(shortname, k + 1, ((sum % 2) * 128 + sum \div 2 + shortname[k]) % 256)

fat_checksum(shortname) == ChecksumFrom(shortname, 1, 0)

\* the 11 bytes of the 8.3 name made from longname
fat_make_shortname(longname) ==
  LET first8 == SubSeq(longname, 1, Min(8, Len(longname)))
      dot == FirstIndex(first8, Dot)
      base == IF dot = 0 THEN first8 ELSE SubSeq(first8, 1, dot - 1)
      last == LastIndex(longname, Dot)
      ext == IF last = 0 THEN << >>
             ELSE SubSeq(longname, last + 1, Min(Len(longname), last + 3))
  IN PadTo(PadTo(base, 8, Space) \o ext, ShortNameLen, Space)

LongnameEntries(name) == CeilDiv(Len(name), LongnameChars)

\* byte k (from 0) of the UTF-16 scratch buffer built from name
ScratchByte(name, k) ==
  IF k < 2 * Len(name) THEN (IF k % 2 = 0 THEN name[k \div 2 + 1] ELSE 0)
  ELSE IF k < 2 * Len(name) + 2 THEN 0
  ELSE 255

\* the sequence byte of the long-name entry at position i of a block of
\* `entries`: the fragments are numbered from the last entry backwards and
\* the first entry carries the 0x40 mark
LongnameNum(i, entries) ==
  IF i = 0 THEN (entries % 64) + 64 + (entries \div 128) * 128
  ELSE entries - i

\* the long-name entry at position i of the block, written over cell old
LongnameCell(name, i, entries, chk, old) ==
  LET k == 26 * (entries - 1 - i) IN
  [b \in 1..DirEntrySize |->
     LET off == b - 1 IN
     IF off = 0 THEN LongnameNum(i, entries)
     ELSE IF off <= 10 THEN ScratchByte(name, k + off - 1)
     ELSE IF off = fat_dir_t.attrib THEN FAT_DIR_LONGNAME
     ELSE IF off = 12 THEN 0
     ELSE IF off = fat_longname_t.checksum THEN chk
     ELSE IF off <= 25 THEN ScratchByte(name, k + 10 + off - 14)
     ELSE IF off <= 27 THEN old[b]
     ELSE ScratchByte(name, k + 22 + off - 28)]

\* the buffer after fat_write_longname(&buffer[de], name); the short entry
\* belongs at entry de + LongnameEntries(name)
fat_write_longname(buf, de, name) ==
  LET entries == LongnameEntries(name)
      chk == fat_checksum(fat_make_shortname(name))
  IN [i \in 1..Len(buf) |->
        IF i - 1 >= de /\ i - 1 < de + entries
        THEN LongnameCell(name, i - 1 - de, entries, chk, buf[i])
        ELSE buf[i]]

\* the 13 characters of the long-name entry de
LongnameFragment(buf, de, w) ==
  << SlotByte(buf, de, 1, w), SlotByte(buf, de, 3, w), SlotByte(buf, de, 5, w),
     SlotByte(buf, de, 7, w), SlotByte(buf, de, 9, w), SlotByte(buf, de, 14, w),
     SlotByte(buf, de, 16, w), SlotByte(buf, de, 18, w), SlotByte(buf, de, 20, w),
     SlotByte(buf, de, 22, w), SlotByte(buf, de, 24, w), SlotByte(buf, de, 28, w),
     SlotByte(buf, de, 30, w) >>

RECURSIVE LongnameJoin(_, _, _, _)
LongnameJoin(buf, de, j, w) ==
  IF j = 0 THEN << >>
  ELSE LongnameFragment(buf, de + j - 1, w) \o LongnameJoin(buf, de, j - 1, w)

NoName == << 0 >>

\* the name fat_read_longname(&buffer[de]) returns, NoName for a null result
fat_read_longname(buf, de, w) ==
  IF SlotByte(buf, de, fat_dir_t.attrib, w) # FAT_DIR_LONGNAME THEN NoName
  ELSE IF (SlotByte(buf, de, 0, w) \div 64) % 2 = 0 THEN NoName
  ELSE CStr(LongnameJoin(buf, de, SlotByte(buf, de, 0, w) % 32, w))

\* the short entry de as fat_readdir sees it after
\* `if((c = strchr(de->name, ' '))) c[0] = '\0'`
CutAtSpace(buf, de, w) ==
  LET raw == [k \in 1..DirEntrySize |-> SlotByte(buf, de, k - 1, w)]
      sp == FirstIndex(CStr(raw), Space)
  IN IF sp = 0 THEN raw ELSE [raw EXCEPT ![sp] = 0]

\* the name fat_readdir parses from the 8.3 field of the short entry de
ParseShortName(buf, de, w) ==
  LET cut == CutAtSpace(buf, de, w)
      base == CStr(SubSeq(cut, 1, 8))
      ext == CStr(SubSeq(cut, 9, 11))
      full == IF cut[fat_dir_t.attrib + 1] # FAT_DIR_DIRECTORY
              THEN base \o << Dot >> \o ext ELSE base \o ext
      end == FirstIndex(full, Space)
  IN IF end = 0 THEN full ELSE SubSeq(full, 1, end - 1)

(***************************************************************************)
(* Calendar functions of the C library, for UTC: gmtime splits epoch       *)
(* seconds into broken-down time, mktime normalises broken-down time and   *)
(* gives epoch seconds.                                                    *)
(***************************************************************************)
IsLeap(y) == (y % 4 = 0 /\ y % 100 # 0) \/ y % 400 = 0
MonthDays(y, m) ==
  IF m = 1 THEN (IF IsLeap(y) THEN 29 ELSE 28)
  ELSE IF m \in {3, 5, 8, 10} THEN 30 ELSE 31

LeapsBefore(y) == (y - 1) \div 4 - (y - 1) \div 100 + (y - 1) \div 400
DaysBeforeYear(y) == 365 * (y - 1970) + LeapsBefore(y) - LeapsBefore(1970)

\* the year that holds day `days` (counted from the epoch) and the day of
\* that year; a year has 365 or 366 days
YearOf(days) ==
  LET lo == 1970 + Min(days \div 365, days \div 366)
      hi == 1970 + Max(days \div 365, days \div 366) + 1
      y == CHOOSE y \in lo..hi : DaysBeforeYear(y) <= days /\ days < DaysBeforeYear(y + 1)
  IN [year |-> y, yday |-> days - DaysBeforeYear(y)]

RECURSIVE MonthOf(_, _, _)
MonthOf(yday, y, m) ==
  IF yday < MonthDays(y, m) THEN [mon |-> m, mday |-> yday + 1]
  ELSE MonthOf(yday - MonthDays(y, m), y, m + 1)

\* a time_t value: days since the epoch and seconds of the day
TimeT(days, secs) == [days |-> days, secs |-> secs]
Epoch == TimeT(0, 0)

gmtime(t) ==
  LET yr == YearOf(t.days)
      mo == MonthOf(yr.yday, yr.year, 0)
      rem == t.secs
  IN [tm_year |-> yr.year - 1900, tm_mon |-> mo.mon, tm_mday |-> mo.mday,
      tm_hour |-> rem \div 3600, tm_min |-> (rem % 3600) \div 60, tm_sec |-> rem % 60]

RECURSIVE DaysBeforeMonth(_, _)
DaysBeforeMonth(y, m) ==
  IF m = 0 THEN 0 ELSE MonthDays(y, m - 1) + DaysBeforeMonth(y, m - 1)

mktime(tm) ==
  LET y == 1900 + tm.tm_year + tm.tm_mon \div 12
      m == tm.tm_mon % 12
      days == DaysBeforeYear(y) + DaysBeforeMonth(y, m) + tm.tm_mday - 1
      secs == tm.tm_hour * 3600 + tm.tm_min * 60 + tm.tm_sec
  IN TimeT(days + secs \div 86400, secs % 86400)

\* the time and date words fat_link stores for a broken-down time
TimeWord(tm) == (tm.tm_hour % 32) * 2048 + (tm.tm_min % 64) * 32 + (tm.tm_sec % 32)
DateWord(tm) == (tm.tm_year % 128) * 512 + (tm.tm_mon % 16) * 32 + (tm.tm_mday % 32)
EncodeTime(t) == TimeWord(gmtime(t))
EncodeDate(t) == DateWord(gmtime(t))

\* the timestamp fat_readdir builds from a time word and a date word
DecodeTime(time, date) ==
  mktime([tm_sec |-> time % 32, tm_min |-> (time \div 32) % 64,
          tm_hour |-> (time \div 2048) % 32, tm_mday |-> date % 32,
          tm_mon |-> (date \div 32) % 16, tm_year |-> (date \div 512) % 128])

(***************************************************************************)
(* Handle table and fat_touch.                                             *)
(***************************************************************************)
RootInode ==
  [parent |-> 1, type |-> FAT_DIR_DIRECTORY, cluster |-> 0, size |-> 0,
   atime |-> Epoch, ctime |-> Epoch, mtime |-> Epoch]

\* the volume after `while(size > 0)` of fat_touch
RECURSIVE TouchLoop(_, _, _)
TouchLoop(v, current, size) ==
  IF size <= 0 THEN v
  ELSE LET linked == [v EXCEPT !.fat = fat_write_fat(v.fat, current, fat_find_free(v))]
           nxt == fat_read_fat(linked, current)
           ended == [linked EXCEPT !.fat = fat_write_fat(linked.fat, nxt, FAT_END)]
       IN TouchLoop(ended, nxt,
                    IF fat_clustersize > size THEN 0 ELSE size - fat_clustersize)

\* [v, ret]: st is [size, dir, atime, ctime, mtime]
fat_touch(v, st) ==
  LET first == fat_find_free(v)
      marked == [v EXCEPT !.fat = fat_write_fat(v.fat, first, FAT_END)]
      done == TouchLoop(marked, first, st.size - fat_clustersize)
      ino == [parent |-> NoParent,
              type |-> IF st.dir THEN FAT_DIR_DIRECTORY ELSE 0,
              cluster |-> first, size |-> st.size,
              atime |-> st.atime, ctime |-> st.ctime, mtime |-> st.mtime]
  IN [v |-> [done EXCEPT !.inodes = Append(v.inodes, ino), !.next = v.next + 1],
      ret |-> v.next]

(***************************************************************************)
(* fat_readdir.  The result is [v, ret] with ret either Null or            *)
(* [name, ino].                                                            *)
(***************************************************************************)
Null == [name |-> << >>, ino |-> 0]

NoEntry(v) == [v |-> v, ret |-> Null]
Stopped(v, st) == [v |-> [v EXCEPT !.status = st], ret |-> Null]

\* `while((num > 2) && ((size_t)de < max))` of fat_readdir: the entry the
\* loop stops at, or -1 when it meets the end-of-directory marker
RECURSIVE ReaddirWalk(_, _, _)
ReaddirWalk(buf, de, num) ==
  IF ~(num > 2 /\ de < NumSlots(buf)) THEN de
  ELSE IF SlotByte(buf, de, 0, 0) = 0 THEN -1
  ELSE IF SlotByte(buf, de, fat_dir_t.attrib, 0) = FAT_DIR_LONGNAME
          \/ SlotByte(buf, de, 0, 0) = Deleted
       THEN ReaddirWalk(buf, de + 1, num)
       ELSE ReaddirWalk(buf, de + 1, num - 1)

\* `while(de->attrib == FAT_DIR_LONGNAME) de++`: the entry the loop stops
\* at, or -2 when it runs on past the buffer
RECURSIVE SkipLongname(_, _, _)
SkipLongname(buf, de, w) ==
  IF SlotByte(buf, de, fat_dir_t.attrib, w) # FAT_DIR_LONGNAME THEN de
  ELSE IF de >= NumSlots(buf) THEN -2
  ELSE SkipLongname(buf, de + 1, w)

\* the inode fat_readdir builds from the short entry de
BuildInode(buf, de, w, dir, attrib) ==
  [parent |-> dir,
   type |-> attrib,
   cluster |-> SlotU16(buf, de, fat_dir_t.cluster_high, w) * 65536
               + SlotU16(buf, de, fat_dir_t.cluster_low, w),
   size |-> SlotU32(buf, de, fat_dir_t.size, w),
   atime |-> DecodeTime(0, SlotU16(buf, de, fat_dir_t.adate, w)),
   ctime |-> DecodeTime(SlotU16(buf, de, fat_dir_t.ctime, w),
                        SlotU16(buf, de, fat_dir_t.cdate, w)),
   mtime |-> DecodeTime(SlotU16(buf, de, fat_dir_t.mtime, w),
                        SlotU16(buf, de, fat_dir_t.mdate, w))]

\* a fat_readdir that appends the record without advancing data->next
ReaddirKeepsNext(v, name, inode) ==
  [v |-> [v EXCEPT !.inodes = Append(v.inodes, inode)],
   ret |-> [name |-> name, ino |-> v.next]]

\* fat_readdir once the name and the attribute byte are known
ReaddirIssue(v, name, inode) ==
  [v |-> [v EXCEPT !.inodes = Append(v.inodes, inode), !.next = v.next + 1],
   ret |-> [name |-> name, ino |-> v.next]]

\* fat_readdir from `char *longname = fat_read_longname(de)` on: at is the
\* first entry of the block, de its short entry
ReaddirEntry(v, dir, buf, at, de, longname) ==
  IF de = -2 THEN Stopped(v, "hung")
  ELSE IF v.w = -1 /\ (de >= NumSlots(buf)
                       \/ at + (SlotByte(buf, at, 0, 0) % 32) > NumSlots(buf))
  THEN Stopped(v, "crashed")
  ELSE IF longname # NoName
  THEN ReaddirIssue(v, longname,
                    BuildInode(buf, de, v.w, dir,
                               SlotByte(buf, de, fat_dir_t.attrib, v.w)))
  ELSE ReaddirIssue(v, ParseShortName(buf, de, v.w),
                    BuildInode(buf, de, v.w, dir,
                               CutAtSpace(buf, de, v.w)[fat_dir_t.attrib + 1]))

\* fat_readdir from the test after the loop on: the loop stopped at entry at
ReaddirAt(v, dir, buf, at) ==
  IF at >= NumSlots(buf) /\ v.w = -1 THEN Stopped(v, "crashed")
  ELSE IF at = -1 \/ at >= NumSlots(buf) THEN NoEntry(v)
  ELSE IF SlotByte(buf, at, 0, 0) = 0 THEN NoEntry(v)
  ELSE ReaddirEntry(v, dir, buf, at, SkipLongname(buf, at, v.w),
                    fat_read_longname(buf, at, v.w))

\* fat_readdir with the directory read: rd is the result of fat_read
ReaddirRead(v, dir, num, cells, rd) ==
  IF rd.status # "ok" THEN Stopped(v, rd.status)
  ELSE ReaddirAt(v, dir, Filled(cells, rd),
                 ReaddirWalk(Filled(cells, rd), 0, IF dir # 1 THEN num + 2 ELSE num))

ReaddirListed(v, dir, num, cl) ==
  IF cl = Faulted THEN Stopped(v, "crashed")
  ELSE IF cl = Looping THEN Stopped(v, "hung")
  ELSE ReaddirRead(v, dir, num, Len(cl) * ClusterSlots,
                   fat_read(v, dir, Len(cl) * fat_clustersize, 0))

fat_readdir(v, dir, num) ==
  IF dir <= 0 \/ dir > Len(v.inodes) THEN NoEntry(v)
  ELSE IF v.inodes[dir].type # FAT_DIR_DIRECTORY THEN NoEntry(v)
  ELSE IF num = 0 THEN [v |-> v, ret |-> [name |-> << Dot >>, ino |-> dir]]
  ELSE IF num = 1
       THEN [v |-> v, ret |-> [name |-> << Dot, Dot >>, ino |-> v.inodes[dir].parent]]
  ELSE ReaddirListed(v, dir, num, fat_get_clusters(v, dir))

(***************************************************************************)
(* fat_link.                                                               *)
(***************************************************************************)
DotName == << Dot >> \o Fill(10, Space)
DotDotName == << Dot, Dot >> \o Fill(9, Space)

\* entries fat_link looks for in a run of deleted slots
LinkEntries(name) == Len(name) \div LongnameChars + 1

\* `while(de->name[0] != 0)` of fat_link: the entry the new block starts at
RECURSIVE LinkScan(_, _, _, _, _)
LinkScan(buf, de, found, firstfree, entries) ==
  IF SlotByte(buf, de, 0, 0) = 0 THEN de
  ELSE IF SlotByte(buf, de, 0, 0) = Deleted
       THEN (IF found + 1 = entries
             THEN (IF found = 0 THEN de ELSE firstfree)
             ELSE LinkScan(buf, de + 1, found + 1,
                           IF found = 0 THEN de ELSE firstfree, entries))
       ELSE LinkScan(buf, de + 1, 0, firstfree, entries)

ClusterLowMask == 256    \* de->cluster_low = iino->cluster & 0xFF

\* the short entry fat_link makes of cell `old`; name is the 11 bytes
\* stored in the name field
ShortEntry(old, name, iino) ==
  name \o << iino.type % 256, old[13], 0 >>
       \o LE16(EncodeTime(iino.ctime)) \o LE16(EncodeDate(iino.ctime))
       \o LE16(EncodeDate(iino.atime))
       \o LE16((iino.cluster \div 65536) % 65536)
       \o LE16(EncodeTime(iino.mtime)) \o LE16(EncodeDate(iino.mtime))
       \o LE16(iino.cluster % ClusterLowMask)
       \o LE32(iino.size)

\* the buffer with the short entry made at entry de
PutShort(buf, de, name, iino) == PutSlot(buf, de, ShortEntry(buf[de + 1], name, iino))

\* [buf, de]: the buffer with the new block written at entry at, and the
\* entry after the short entry
LinkWrite(buf, at, name, iino) ==
  IF name # DotName /\ name # DotDotName
  THEN [buf |-> PutShort(fat_write_longname(buf, at, name), at + LongnameEntries(name),
                         fat_make_shortname(name), iino),
        de |-> at + LongnameEntries(name) + 1]
  ELSE [buf |-> PutShort(buf, at, name, iino), de |-> at + 1]

\* `while(current != FAT_END)` of fat_link: the last cluster of the
\* directory, -1 for a fault, -2 for a loop that never ends
RECURSIVE GrowWalk(_, _, _, _)
GrowWalk(v, last, current, seen) ==
  IF current < 0 THEN -1
  ELSE IF current = FAT_END THEN last
  ELSE IF current \in seen THEN -2
  ELSE GrowWalk(v, current, fat_read_fat(v, current), seen \cup { current })

\* the FAT after fat_link chained the cluster `current` to the directory
LinkChain(fat, last, current) ==
  fat_write_fat(fat_write_fat(fat, last, current), current, FAT_END)

\* fat_link from fat_write on
LinkStore(v, dir, buffer, size) ==
  [v |-> fat_write(v, dir, buffer, size, 0).v, ret |-> 0]

\* `if((size_t)de > (size_t)buffer + size)` with the walk done
LinkGrow(v, dir, buffer, size, last) ==
  IF last = -1 THEN Failed(v, "crashed")
  ELSE IF last = -2 THEN Failed(v, "hung")
  ELSE LinkStore([v EXCEPT !.fat = LinkChain(v.fat, last, fat_find_free(v))],
                 dir, buffer, size + fat_clustersize)

\* fat_link with the new block written: wr is the result of LinkWrite
LinkPlaced(v, dir, size, wr) ==
  IF wr.de * DirEntrySize > size
  THEN LinkGrow(v, dir, wr.buf, size, GrowWalk(v, 0, v.inodes[dir].cluster, { }))
  ELSE LinkStore(v, dir, wr.buf, size)

\* fat_link with the directory read into the buffer
LinkBuffer(v, ino, dir, name, size, buffer) ==
  LinkPlaced(v, dir, size,
             LinkWrite(buffer, LinkScan(buffer, 0, 0, 0, LinkEntries(name)), name,
                       v.inodes[ino]))

LinkRead(v, ino, dir, name, cl, rd) ==
  IF rd.status # "ok" THEN Failed(v, rd.status)
  ELSE LinkBuffer(v, ino, dir, name, Len(cl) * fat_clustersize,
                  Filled((Len(cl) + 1) * ClusterSlots, rd))

LinkListed(v, ino, dir, name, cl) ==
  IF cl = Faulted THEN Failed(v, "crashed")
  ELSE IF cl = Looping THEN Failed(v, "hung")
  ELSE LinkRead(v, ino, dir, name, cl, fat_read(v, dir, Len(cl) * fat_clustersize, 0))

\* fat_link from `iino->parent = dir` on

fat_link(v, ino, dir, name) ==
  IF ino = 0 \/ dir = 0 THEN [v |-> v, ret |-> 1]
  ELSE IF ino < 0 \/ ino > Len(v.inodes) \/ dir < 0 \/ dir > Len(v.inodes)
  THEN Failed(v, "crashed")
  ELSE LinkListed([v EXCEPT !.inodes[ino].parent = dir], ino, dir, name,
                  fat_get_clusters(v, dir))

(***************************************************************************)
(* fat_unlink.                                                             *)
(***************************************************************************)
\* `while((num > 2) && ((size_t)de < max))` of fat_unlink
RECURSIVE UnlinkWalk(_, _, _)
UnlinkWalk(buf, de, num) ==
  IF ~(num > 2 /\ de < NumSlots(buf)) THEN de
  ELSE IF SlotByte(buf, de, 0, 0) = 0 THEN -1
  ELSE IF SlotByte(buf, de, fat_dir_t.attrib, 0) = FAT_DIR_LONGNAME
       THEN UnlinkWalk(buf, de + 1, num)
       ELSE UnlinkWalk(buf, de + 1, num - 1)

\* buffer2 of fat_unlink: the directory without the entries start..next-1
UnlinkCompact(buf, start, next) ==
  [i \in 1..Len(buf) |->
     IF i <= start THEN buf[i]
     ELSE IF i + (next - start) <= Len(buf) THEN buf[i + (next - start)]
     ELSE ZeroCell]

\* `while(clusters[i])` of fat_unlink: the FAT with the listed clusters freed
RECURSIVE FreeClusters(_, _, _)
FreeClusters(fat, clusters, i) ==
  IF i > Len(clusters) THEN fat
  ELSE IF clusters[i] = 0 THEN fat
  ELSE FreeClusters(fat_write_fat(fat, clusters[i], 0), clusters, i + 1)

\* fat_unlink from `uint32_t *clusters = fat_get_clusters(fs, item)` on
UnlinkFree(v, clusters) ==
  IF v.status # "ok" THEN [v |-> v, ret |-> 1]
  ELSE IF clusters = Faulted THEN Failed(v, "crashed")
  ELSE IF clusters = Looping THEN Failed(v, "hung")
  ELSE [v |-> [v EXCEPT !.fat = FreeClusters(v.fat, clusters, 1)], ret |-> 0]

\* fat_unlink with the directory written back: wv is the volume after
UnlinkWritten(wv, item) == UnlinkFree(wv, fat_get_clusters(wv, item))

\* fat_unlink from `void *start = de` on: next is the entry after the block
UnlinkBlock(v, dir, item, buffer, start, next) ==
  IF next > NumSlots(buffer) \/ next < 0 THEN Failed(v, "crashed")
  ELSE UnlinkWritten(fat_write(v, dir, UnlinkCompact(buffer, start, next),
                               NumSlots(buffer) * DirEntrySize, 0).v, item)

\* fat_unlink from the test after the loop on: the loop stopped at start
UnlinkAt(v, dir, item, buffer, start) ==
  IF start = -1 THEN [v |-> v, ret |-> 1]
  ELSE IF start >= NumSlots(buffer) /\ v.w = -1 THEN Failed(v, "crashed")
  ELSE IF SlotByte(buffer, start, 0, v.w) = 0 THEN [v |-> v, ret |-> 1]
  ELSE UnlinkBlock(v, dir, item, buffer, start, SkipLongname(buffer, start, v.w) + 1)

UnlinkBuffer(v, dir, num, item, buffer) ==
  UnlinkAt(v, dir, item, buffer, UnlinkWalk(buffer, 0, IF dir # 1 THEN num + 2 ELSE num))

UnlinkRead(v, dir, num, item, cells, rd) ==
  IF rd.status # "ok" THEN Failed(v, rd.status)
  ELSE UnlinkBuffer(v, dir, num, item, Filled(cells, rd))

UnlinkListed(v, dir, num, item, cl) ==
  IF cl = Faulted THEN Failed(v, "crashed")
  ELSE IF cl = Looping THEN Failed(v, "hung")
  ELSE UnlinkRead(v, dir, num, item, Len(cl) * ClusterSlots,
                  fat_read(v, dir, Len(cl) * fat_clustersize, 0))

\* fat_unlink from `INODE item = dirent->ino` on: found is the result of
\* fat_readdir
UnlinkFound(found, dir, num) ==
  IF found.v.status # "ok" THEN [v |-> found.v, ret |-> 1]
  ELSE IF found.ret = Null THEN Failed(found.v, "crashed")
  ELSE UnlinkListed(found.v, dir, num, found.ret.ino, fat_get_clusters(found.v, dir))

fat_unlink(v, dir, num) ==
  IF dir = 0 \/ num < 2 \/ dir < 0 \/ dir > Len(v.inodes) THEN [v |-> v, ret |-> 1]
  ELSE IF v.inodes[dir].type # FAT_DIR_DIRECTORY THEN [v |-> v, ret |-> 1]
  ELSE UnlinkFound(fat_readdir(v, dir, num), dir, num)

(***************************************************************************)
(* fat_mkdir and fat_rmdir.                                                *)
(***************************************************************************)
\* a call made after an earlier call r of the same operation: it is made
\* only if r left the process running
Then(r, after) == IF r.v.status # "ok" THEN [v |-> r.v, ret |-> 1] ELSE after

\* fat_mkdir from the last fat_link on
MkdirDotDot(r, parent, child) ==
  Then(r, [v |-> fat_link(r.v, parent, child, DotDotName).v, ret |-> 0])

\* fat_mkdir from `fat_link(fs, child, child, ".          ")` on
MkdirDot(r, parent, child) ==
  Then(r, MkdirDotDot(fat_link(r.v, child, child, DotName), parent, child))

\* fat_mkdir from `fat_dir_t *de = calloc(1, fat_clustersize(fs))` on: r is
\* the result of the first fat_link
MkdirLinked(r, parent, child) ==
  Then(r, IF r.ret # 0 THEN [v |-> r.v, ret |-> 1]
          ELSE MkdirDot(fat_write(r.v, child, ZeroCluster, fat_clustersize, 0),
                        parent, child))

\* fat_mkdir from `if(fat_link(fs, child, parent, name))` on: t is the
\* result of fat_touch
MkdirTouched(t, parent, name) ==
  MkdirLinked(fat_link(t.v, t.ret, parent, name), parent, t.ret)

\* now is the value of time(0)
fat_mkdir(v, parent, name, now) ==
  IF parent = 0 THEN [v |-> v, ret |-> 1]
  ELSE MkdirTouched(fat_touch(v, [size |-> 0, dir |-> TRUE,
                                  atime |-> now, ctime |-> now, mtime |-> now]),
                    parent, name)

\* fat_rmdir from `if(fat_readdir(fs, target, 2))` on: inside is the result
\* of that call
RmdirInside(inside, dir, num) ==
  Then(inside, IF inside.ret # Null THEN [v |-> inside.v, ret |-> 1]
               ELSE [v |-> fat_unlink(inside.v, dir, num).v, ret |-> 0])

\* fat_rmdir from `INODE target = de->ino` on: de is the result of
\* fat_readdir
RmdirTarget(de, dir, num) ==
  Then(de, IF de.ret = Null THEN Failed(de.v, "crashed")
           ELSE RmdirInside(fat_readdir(de.v, de.ret.ino, 2), dir, num))

fat_rmdir(v, dir, num) ==
  IF dir = 0 THEN [v |-> v, ret |-> 1]
  ELSE RmdirTarget(fat_readdir(v, dir, num), dir, num)

(***************************************************************************)
(* fat_hook_create, fat_hook_close and fat_hook_load.                      *)
(*                                                                         *)
(* fat_hook_create computes the boot parameter block from the length of    *)
(* the partition in sectors; these numbers are not scaled.  The geometry   *)
(* macros of fat.h are taken over the BPB record.  Of the FAT buffer of    *)
(* sectors_per_fat sectors the model keeps the first sector, which holds   *)
(* all that fat_hook_create writes; the others are zeros from calloc.      *)
(***************************************************************************)
BLOCK_SIZE == 512
ClusterSectors == 8      \* int cluster_size = 8
ReservedSectors == 4
FatCount == 2
Fat12Bits == 12          \* int fat_bits = 12
Fat16Size == 16777216    \* 0x1000000, 16 MiB
LargeSize == 4194304     \* 0x400000, 4 MiB
Fat32Sectors == 4194304  \* 0x80000000 / BLOCK_SIZE, 2 GiB in sectors
RootCountLarge == 512
RootCountFloppy == 240
SmallSectorsMax == 65535
Fat12Clusters == 4085
Fat16Clusters == 65525

\* a uint32_t is kept as its halves [hi, lo] of 16 bits where it can exceed
\* the integers of the model checker
Half == 256 * 256

\* `uint32_t fat_size = num_sectors/cluster_size - bpb->reserved_sectors`:
\* the subtraction wraps around when the quotient is below reserved_sectors
fat_size(num_sectors) ==
  LET q == num_sectors \div ClusterSectors
  IN IF q >= ReservedSectors
     THEN [hi |-> (q - ReservedSectors) \div Half, lo |-> (q - ReservedSectors) % Half]
     ELSE [hi |-> Half - 1, lo |-> Half - (ReservedSectors - q)]

Quotient(x, d) == (x.hi \div d) * Half + ((x.hi % d) * Half + x.lo) \div d
Remainder(x, d) == ((x.hi % d) * Half + x.lo) % d

\* bpb->sectors_per_fat, a uint16_t
sectors_per_fat(num_sectors) ==
  LET entries_per_sector == (BLOCK_SIZE * 8) \div Fat12Bits
      size == fat_size(num_sectors)
  IN (Quotient(size, entries_per_sector)
        + (IF Remainder(size, entries_per_sector) # 0 THEN 1 ELSE 0)) % Half

\* the BPB of fat_hook_create for a partition it formats as FAT12
CreatedBpb(num_sectors) ==
  [bytes_per_sector |-> BLOCK_SIZE,
   sectors_per_cluster |-> ClusterSectors,
   reserved_sectors |-> ReservedSectors,
   fat_count |-> FatCount,
   root_count |-> IF num_sectors * BLOCK_SIZE > LargeSize
                  THEN RootCountLarge ELSE RootCountFloppy,
   total_sectors_small |-> IF num_sectors > SmallSectorsMax THEN 0 ELSE num_sectors,
   total_sectors_large |-> IF num_sectors > SmallSectorsMax THEN num_sectors ELSE 0,
   media_descriptor |-> IF num_sectors * BLOCK_SIZE > LargeSize THEN 248 ELSE 240,
   sectors_per_fat |-> sectors_per_fat(num_sectors),
   sectors_per_track |-> 32, num_heads |-> 64, hidden_sectors |-> 0]

\* the calloc'ed BPB that fat_hook_create leaves when it refuses to format
ZeroBpb == [f \in DOMAIN CreatedBpb(0) |-> 0]

\* geometry macros of fat.h
fat_data_start(bpb) ==
  bpb.reserved_sectors + bpb.fat_count * bpb.sectors_per_fat
    + CeilDiv(bpb.root_count * DirEntrySize, BLOCK_SIZE)

fat_num_clusters(bpb) ==
  ((IF bpb.total_sectors_small # 0 THEN bpb.total_sectors_small
    ELSE bpb.total_sectors_large) - fat_data_start(bpb)) \div bpb.sectors_per_cluster

fat_bits(bpb) ==
  IF fat_num_clusters(bpb) < Fat12Clusters THEN 12
  ELSE IF fat_num_clusters(bpb) < Fat16Clusters THEN 16
  ELSE 32

\* the first sector of the FAT after fat_hook_create on a buffer of at least
\* one sector: entry 0 = 0xF00 | media, entry 1 = 0xFFF
FormattedFat(b) ==
  fat_write_fat(fat_write_fat([o \in 0..(FatBytes - 1) |-> 0], 0,
                              3840 + media_descriptor(b)), 1, 4095)

\* fat_hook_create from `data->fat = calloc(...)` on: the two fat_write_fat
\* calls return at once unless fat_bits(fs) is 12, and with sectors_per_fat
\* = 0 they write outside the buffer
CreatedFat(bpb, w) ==
  IF bpb.sectors_per_fat = 0
  THEN [status |-> IF fat_bits(bpb) = 12 /\ w = -1 THEN "crashed" ELSE "created",
        bpb |-> bpb, fat |-> << >>]
  ELSE [status |-> "created", bpb |-> bpb,
        fat |-> IF fat_bits(bpb) = 12
                THEN FormattedFat(bpb.root_count = RootCountLarge)
                ELSE [o \in 0..(FatBytes - 1) |-> 0]]

\* [status, bpb, fat]: status is "refused" when the partition needs FAT16
\* or FAT32
fat_hook_create(num_sectors, w) ==
  IF num_sectors >= Fat32Sectors \/ num_sectors * BLOCK_SIZE >= Fat16Size
  THEN [status |-> "refused", bpb |-> ZeroBpb, fat |-> << >>]
  ELSE CreatedFat(CreatedBpb(num_sectors), w)

\* a close that writes the first FAT copy only
CloseFirstCopy(copies, v) == [copies EXCEPT ![1] = v.fat]

\* the FAT copies on the partition after fat_hook_close wrote data->fat to
\* each of them
fat_hook_close(copies, v) == [i \in 1..FatCount |-> v.fat]

\* the volume after fat_hook_load, which reads the first FAT copy
fat_hook_load(copies, v) ==
  [v EXCEPT !.fat = copies[1], !.inodes = << RootInode >>, !.next = 2,
            !.status = "ok"]

(***************************************************************************)
(* The mounted volume and its callers.                                     *)
(*                                                                         *)
(* A run starts from a volume that fat_hook_create formatted and           *)
(* fat_hook_load mounted, on a zeroed partition: either freshly formatted, *)
(* or ("used") after an earlier session that touched one file of           *)
(* UsedClusters clusters and closed the volume, or ("foreign") after       *)
(* another FAT driver made and deleted files in the root directory; or it  *)
(* starts from a partition ("raw") that was never formatted and holds the  *)
(* bytes of an earlier use.  The caller follows one of the workloads       *)
(* below: it issues at most credits[op] calls of each operation, with      *)
(* names, sizes, entry numbers and partition lengths from args.            *)
(*                                                                         *)
(* fat, disk, inodes, next and big are the state of the driver and fats    *)
(* the FAT copies on the partition; status is "raw" before fat_hook_create *)
(* and "created" after it ("refused" when it did not format), "closed"     *)
(* after fat_hook_close, and "ok" while the mounted volume runs, until a   *)
(* call crashes or hangs.  big stands for the BPB in sector 0: the volume  *)
(* is above 4 MiB.  The other variables record the history that the        *)
(* properties speak about: last is the last call and its result, pre the   *)
(* volume before that call, made[h] the operation that issued handle h,    *)
(* and links the entries that the caller made with a fat_link or fat_mkdir *)
(* that returned 0.                                                        *)
(***************************************************************************)
VARIABLES fat, disk, inodes, next, status, big, fats, last, pre, made, links, credits,
          args

vars ==
  << fat, disk, inodes, next, status, big, fats, last, pre, made, links, credits, args >>

UsedClusters == 254      \* clusters 3..256 are taken on a used volume

StatTime == TimeT(11574, 6400)  \* the time passed in fstat_t and returned by time(0)

Wild == { -1, 0, FAT_END }

\* the volume record of the current state, for a call whose undefined reads
\* give w
Vol(w) ==
  [fat |-> fat, disk |-> disk, inodes |-> inodes, next |-> next,
   status |-> status, big |-> big, w |-> w]

\* entry n of the FAT that the earlier session of a used volume left on
\* disk: its one file took clusters 3 .. UsedClusters + 2 in order
UsedEntry(b, n) ==
  IF n = 0 THEN 3840 + media_descriptor(b)
  ELSE IF n = 1 THEN 4095
  ELSE IF n >= 3 /\ n < UsedClusters + 2 THEN n + 1
  ELSE IF n = UsedClusters + 2 THEN FAT_END
  ELSE 0

\* the bytes of that FAT: entries 2g and 2g + 1 share bytes 3g .. 3g + 2
UsedFat(b) ==
  [o \in 0..(FatBytes - 1) |->
     LET even == UsedEntry(b, 2 * (o \div 3))
         odd == UsedEntry(b, 2 * (o \div 3) + 1)
     IN IF o % 3 = 0 THEN even % 256
        ELSE IF o % 3 = 1 THEN even \div 256 + (odd % 16) * 16
        ELSE odd \div 16]

\* names: "a", "bb", a name whose first byte is 0xE5, two names of 13
\* characters and names of 39 and 65 characters
NameA == << 97 >>
NameB == << 98, 98 >>
NameE5 == << Deleted, 120 >>
Name13 == Fill(LongnameChars, 99)
Other13 == Fill(LongnameChars, 102)
Name39 == Fill(3 * LongnameChars, 100)
Name65 == Fill(5 * LongnameChars, 101)

IoOffsets == { 0, fat_clustersize - 1 }
IoLengths == { 1, 2 }
IoData == << Store(ZeroCell, 0, << 65, 66 >>) >>

NoCredits ==
  [touch |-> 0, link |-> 0, readdir |-> 0, read |-> 0, write |-> 0,
   unlink |-> 0, mkdir |-> 0, rmdir |-> 0, create |-> 0, close |-> 0, load |-> 0,
   set |-> 0]

Workload(image, b, names, sizes, nums, cr) ==
  [image |-> image, big |-> b, names |-> names, sizes |-> sizes, nums |-> nums,
   lengths |-> { }, credits |-> cr]

\* the length in sectors of the raw partition, 1 MiB
RawLength == 2048

\* the root directory area of the raw partition holds the entry of a file
\* "a" that an earlier use of the partition left there
StaleDisk ==
  0 :> PutShort(ZeroCluster, 0, fat_make_shortname(NameA),
                [type |-> 0, cluster |-> FindFreeFrom, size |-> 0,
                 atime |-> StatTime, ctime |-> StatTime, mtime |-> StatTime])

ZeroFat == [o \in 0..(FatBytes - 1) |-> 0]

\* the root directory of a volume that another FAT driver has used: a slot
\* marked deleted, then the short entry of an empty file "bb"
ForeignEntry ==
  ShortEntry(ZeroCell, fat_make_shortname(NameB),
             [type |-> 0, cluster |-> 0, size |-> 0,
              atime |-> StatTime, ctime |-> StatTime, mtime |-> StatTime])

ForeignDisk ==
  0 :> PutSlot(PutSlot(ZeroCluster, 0, [ForeignEntry EXCEPT ![1] = Deleted]),
               1, ForeignEntry)

Workloads ==
  { \* a file is created, listed and removed
    Workload("fresh", FALSE, { NameA },
             { 0, fat_clustersize, fat_clustersize + 1, 2 * fat_clustersize + 1 },
             { 0, 1, 2, 3 },
             [NoCredits EXCEPT !.touch = 1, !.link = 1, !.readdir = 2, !.unlink = 1]),
    \* files on a volume with two free clusters left
    Workload("used", FALSE, { NameA }, { 0, fat_clustersize + 1 }, { 2 },
             [NoCredits EXCEPT !.touch = 2, !.link = 1, !.unlink = 1,
                               !.write = 1, !.read = 1]),
    \* file contents
    Workload("fresh", FALSE, { NameA }, { fat_clustersize + 1 }, { 2 },
             [NoCredits EXCEPT !.touch = 1, !.write = 2, !.read = 1]),
    \* several entries in the root directory
    Workload("fresh", FALSE, { NameE5, NameB, Name13, Other13 }, { 0 }, { 2, 3 },
             [NoCredits EXCEPT !.touch = 1, !.link = 3, !.readdir = 1, !.unlink = 1]),
    \* the root directory fills up
    Workload("fresh", FALSE, { Name65 }, { 0 }, { 2, 3 },
             [NoCredits EXCEPT !.touch = 1, !.link = 2, !.readdir = 1]),
    \* a subdirectory fills up
    Workload("fresh", FALSE, { Name39 }, { 0 }, { 0, 1, 2, 3 },
             [NoCredits EXCEPT !.mkdir = 1, !.touch = 1, !.link = 2, !.readdir = 1]),
    Workload("used", FALSE, { Name39 }, { 0 }, { 2, 3 },
             [NoCredits EXCEPT !.mkdir = 1, !.touch = 1, !.link = 2, !.readdir = 1]),
    \* directories are made and removed
    Workload("fresh", FALSE, { NameA }, { 0 }, { 0, 1, 2 },
             [NoCredits EXCEPT !.mkdir = 1, !.readdir = 2, !.rmdir = 1]),
    \* a volume above 4 MiB
    Workload("fresh", TRUE, { NameA }, { 0 }, { 0, 1, 2 },
             [NoCredits EXCEPT !.touch = 1, !.link = 1, !.mkdir = 1, !.readdir = 1,
                               !.rmdir = 1]),
    \* a partition is formatted, closed and mounted
    [Workload("raw", FALSE, { }, { }, { 0, 1, 2 },
              [NoCredits EXCEPT !.create = 1, !.close = 1, !.load = 1, !.readdir = 2])
       EXCEPT !.lengths = { RawLength }],
    \* a volume is closed and mounted again
    Workload("fresh", FALSE, { NameA }, { 0, fat_clustersize + 1 }, { 2 },
             [NoCredits EXCEPT !.touch = 2, !.link = 1, !.close = 1, !.load = 1,
                               !.readdir = 1]),
    \* a directory with a file in it is removed
    Workload("fresh", FALSE, { NameB }, { 0 }, { 2 },
             [NoCredits EXCEPT !.mkdir = 1, !.touch = 1, !.link = 1, !.rmdir = 1]),
    Workload("used", FALSE, { NameA }, { 0 }, { 2 },
             [NoCredits EXCEPT !.mkdir = 1, !.touch = 1, !.link = 1, !.rmdir = 1]),
    \* names are linked into a root directory with a deleted slot
    Workload("foreign", FALSE, { NameA, Name13 }, { 0 }, { 2, 3 },
             [NoCredits EXCEPT !.touch = 1, !.link = 1, !.readdir = 1]),
    \* reads at and beyond the end of a file
    Workload("fresh", FALSE, { NameA }, { 1, fat_clustersize - 1 }, { 2 },
             [NoCredits EXCEPT !.touch = 1, !.read = 1]) }

DirHandles == { h \in 1..(next - 1) : inodes[h].type = FAT_DIR_DIRECTORY }
FileHandles == { h \in 2..(next - 1) : inodes[h].type # FAT_DIR_DIRECTORY }

\* the last call: the operation, its arguments and what it returned
NoCall ==
  [op |-> "none", ino |-> 0, dir |-> 0, num |-> 0, name |-> << >>, size |-> 0,
   off |-> 0, len |-> 0, ret |-> 0]

Snapshot == [fat |-> fat, disk |-> disk, inodes |-> inodes, next |-> next]

\* the state of a partition that was never formatted, for a caller wl
Raw(wl, stale) ==
  /\ fat = << >>
  /\ disk = stale
  /\ inodes = << >>
  /\ next = 0
  /\ status = "raw"
  /\ big = FALSE
  /\ fats = [i \in 1..FatCount |-> ZeroFat]
  /\ last = NoCall
  /\ pre = [fat |-> fat, disk |-> disk, inodes |-> inodes, next |-> next]
  /\ made = << >>
  /\ links = << >>
  /\ credits = wl.credits
  /\ args = [names |-> wl.names, sizes |-> wl.sizes, nums |-> wl.nums,
             lengths |-> wl.lengths]

\* the state after fat_hook_load of a volume
Mounted(wl) ==
  /\ fat = IF wl.image = "used" THEN UsedFat(wl.big) ELSE FormattedFat(wl.big)
  /\ disk = IF wl.image = "foreign" THEN ForeignDisk ELSE << >>
  /\ inodes = << RootInode >>
  /\ next = 2
  /\ status = "ok"
  /\ big = wl.big
  /\ fats = [i \in 1..FatCount |-> fat]
  /\ last = NoCall
  /\ pre = [fat |-> fat, disk |-> disk, inodes |-> inodes, next |-> next]
  /\ made = << "load" >>
  /\ links = << >>
  /\ credits = wl.credits
  /\ args = [names |-> wl.names, sizes |-> wl.sizes, nums |-> wl.nums,
             lengths |-> wl.lengths]

Init ==
  \E wl \in Workloads :
    IF wl.image = "raw" THEN Raw(wl, StaleDisk) ELSE Mounted(wl)

\* the state after a call of op with result r = [v, ret]
Becomes(r, op, call) ==
  /\ fat' = r.v.fat
  /\ disk' = r.v.disk
  /\ inodes' = r.v.inodes
  /\ next' = r.v.next
  /\ status' = r.v.status
  /\ big' = big
  /\ fats' = fats
  /\ pre' = Snapshot
  /\ last' = [call EXCEPT !.op = op, !.ret = r.ret]
  /\ made' = made \o [k \in 1..(r.v.next - next) |-> op]
  /\ links' = IF op = "link" /\ r.v.status = "ok" /\ r.ret = 0
              THEN Append(links, [ino |-> call.ino, dir |-> call.dir, name |-> call.name])
              ELSE IF op = "mkdir" /\ r.v.status = "ok" /\ r.ret = 0
              THEN Append(links, [ino |-> next, dir |-> call.dir, name |-> call.name])
              ELSE links
  /\ credits' = [credits EXCEPT ![op] = @ - 1]
  /\ args' = args

\* the bytes fat_read copied to the caller's buffer
ReadResult(v, rd) ==
  [v |-> [v EXCEPT !.status = rd.status],
   ret |-> [len |-> rd.len, data |-> [k \in 1..rd.len |-> ByteAt(rd.data, k - 1)]]]

Touch ==
  /\ status = "ok" /\ credits.touch > 0
  /\ \E size \in args.sizes, w \in Wild :
       Becomes(fat_touch(Vol(w), [size |-> size, dir |-> FALSE, atime |-> StatTime,
                                  ctime |-> StatTime, mtime |-> StatTime]),
               "touch", [NoCall EXCEPT !.size = size])

Link ==
  /\ status = "ok" /\ credits.link > 0
  /\ \E ino \in 2..(next - 1), dir \in DirHandles, name \in args.names, w \in Wild :
       Becomes(fat_link(Vol(w), ino, dir, name), "link",
               [NoCall EXCEPT !.ino = ino, !.dir = dir, !.name = name])

Readdir ==
  /\ status = "ok" /\ credits.readdir > 0
  /\ \E dir \in 1..(next - 1), num \in args.nums, w \in Wild :
       Becomes(fat_readdir(Vol(w), dir, num), "readdir",
               [NoCall EXCEPT !.dir = dir, !.num = num])

Read ==
  /\ status = "ok" /\ credits.read > 0
  /\ \E ino \in FileHandles, off \in IoOffsets, len \in IoLengths, w \in Wild :
       Becomes(ReadResult(Vol(w), fat_read(Vol(w), ino, len, off)), "read",
               [NoCall EXCEPT !.ino = ino, !.off = off, !.len = len])

Write ==
  /\ status = "ok" /\ credits.write > 0
  /\ \E ino \in FileHandles, off \in IoOffsets, len \in IoLengths, w \in Wild :
       Becomes(fat_write(Vol(w), ino, IoData, len, off), "write",
               [NoCall EXCEPT !.ino = ino, !.off = off, !.len = len])

Unlink ==
  /\ status = "ok" /\ credits.unlink > 0
  /\ \E dir \in DirHandles, num \in args.nums, w \in Wild :
       Becomes(fat_unlink(Vol(w), dir, num), "unlink",
               [NoCall EXCEPT !.dir = dir, !.num = num])

Mkdir ==
  /\ status = "ok" /\ credits.mkdir > 0
  /\ \E parent \in DirHandles, name \in args.names, w \in Wild :
       Becomes(fat_mkdir(Vol(w), parent, name, StatTime), "mkdir",
               [NoCall EXCEPT !.dir = parent, !.name = name])

Rmdir ==
  /\ status = "ok" /\ credits.rmdir > 0
  /\ \E dir \in DirHandles, num \in args.nums, w \in Wild :
       Becomes(fat_rmdir(Vol(w), dir, num), "rmdir",
               [NoCall EXCEPT !.dir = dir, !.num = num])

\* the state after a call of op that attaches or detaches the volume v
Attaches(v, copies, op, call) ==
  /\ fat' = v.fat
  /\ disk' = v.disk
  /\ inodes' = v.inodes
  /\ next' = v.next
  /\ status' = v.status
  /\ big' = v.big
  /\ fats' = copies
  /\ pre' = Snapshot
  /\ last' = [call EXCEPT !.op = op]
  /\ made' = [h \in 1..Len(v.inodes) |-> op]
  /\ links' = << >>
  /\ credits' = [credits EXCEPT ![op] = @ - 1]
  /\ args' = args

\* the volume record after fat_hook_create returned r; the BPB goes to
\* sector 0, and nothing else is written to the partition
Created(r) ==
  [Vol(0) EXCEPT !.fat = r.fat, !.inodes = << >>, !.next = 0, !.status = r.status,
                 !.big = (r.bpb.root_count = RootCountLarge)]

\* fs->data after fat_hook_close freed it
Closed == [Vol(0) EXCEPT !.fat = << >>, !.inodes = << >>, !.next = 0, !.status = "closed"]

Create ==
  /\ status = "raw" /\ credits.create > 0
  /\ \E length \in args.lengths, w \in Wild :
       Attaches(Created(fat_hook_create(length, w)), fats, "create",
                [NoCall EXCEPT !.len = length, !.ret = fat_hook_create(length, w).bpb])

Close ==
  /\ status \in { "ok", "created" } /\ credits.close > 0
  /\ Attaches(Closed, fat_hook_close(fats, Vol(0)), "close", NoCall)

Load ==
  /\ status = "closed" /\ credits.load > 0
  /\ Attaches(fat_hook_load(fats, Vol(0)), fats, "load", NoCall)

Next ==
  \/ Touch
  \/ Link
  \/ Readdir
  \/ Read
  \/ Write
  \/ Unlink
  \/ Mkdir
  \/ Rmdir
  \/ Create
  \/ Close
  \/ Load

Spec == Init /\ [][Next]_vars

(***************************************************************************)
(* Formatting alone: fat_hook_create on a partition of every length up to  *)
(* MaxLength sectors.                                                      *)
(***************************************************************************)
MaxLength == 32767       \* the longest partition below 16 MiB

FormatInit ==
  \E length \in 0..MaxLength :
    Raw([Workload("raw", FALSE, { }, { }, { }, [NoCredits EXCEPT !.create = 1])
           EXCEPT !.lengths = { length }],
        << >>)

FormatSpec == FormatInit /\ [][Create]_vars

(***************************************************************************)
(* The FAT table alone: one fat_write_fat of a 12-bit value to an entry    *)
(* inside the buffer, on tables with every kind of neighbouring entry.     *)
(***************************************************************************)
\* the 12-bit values written: the nibble patterns 0x000, 0x111 .. 0xFFF, 1
\* and FAT_END
SetValues == { k * 273 : k \in 0..15 } \cup { 1, FAT_END }

\* the tables written to: all ones, the FAT of a used volume, and a table
\* whose bytes all differ from their neighbours
Tables ==
  { [o \in 0..(FatBytes - 1) |-> 255], UsedFat(FALSE),
    [o \in 0..(FatBytes - 1) |-> (o * 37 + 11) % 256] }

TableInit ==
  \E table \in Tables :
    /\ fat = table
    /\ disk = << >>
    /\ inodes = << RootInode >>
    /\ next = 2
    /\ status = "ok"
    /\ big = FALSE
    /\ fats = [i \in 1..FatCount |-> table]
    /\ last = NoCall
    /\ pre = [fat |-> fat, disk |-> disk, inodes |-> inodes, next |-> next]
    /\ made = << "load" >>
    /\ links = << >>
    /\ credits = [NoCredits EXCEPT !.set = 1]
    /\ args = [names |-> { }, sizes |-> { }, nums |-> { }, lengths |-> { }]

WriteFat ==
  /\ status = "ok" /\ credits.set > 0
  /\ \E cluster \in FatEntries, set \in SetValues :
       /\ fat' = fat_write_fat(fat, cluster, set)
       /\ pre' = Snapshot
       /\ last' = [NoCall EXCEPT !.op = "set", !.num = cluster, !.size = set]
       /\ credits' = [credits EXCEPT !.set = @ - 1]
       /\ UNCHANGED << disk, inodes, next, status, big, fats, made, links, args >>

TableSpec == TableInit /\ [][WriteFat]_vars

(***************************************************************************)
(* Timestamps: a file whose times fat_touch took from the caller is linked *)
(* into the root and found again by fat_readdir.                           *)
(***************************************************************************)
\* first and last years of FAT dates, the years around the turn of the
\* century and around 2028
StampYears == { 1980, 1999, 2000, 2027, 2028, 2107 }

\* the first day of the year, the day after the 59th, and the 365th
StampDays == { 0, 59, 364 }

StampSeconds ==
  { h * 3600 + m * 60 + sec : h \in { 0, 23 }, m \in { 0, 59 }, sec \in { 0, 1, 31, 32, 59 } }

Stamps ==
  { TimeT(DaysBeforeYear(y) + d, secs) :
      y \in StampYears, d \in StampDays, secs \in StampSeconds }

\* a freshly formatted small volume after fat_hook_load
FreshVol ==
  [fat |-> FormattedFat(FALSE), disk |-> << >>, inodes |-> << RootInode >>, next |-> 2,
   status |-> "ok", big |-> FALSE, w |-> 0]

\* the state after the fat_touch with result r on FreshVol
Touched(r) ==
  /\ fat = r.v.fat
  /\ disk = r.v.disk
  /\ inodes = r.v.inodes
  /\ next = r.v.next
  /\ status = r.v.status
  /\ big = FALSE
  /\ fats = [i \in 1..FatCount |-> FreshVol.fat]
  /\ last = [NoCall EXCEPT !.op = "touch", !.ret = r.ret]
  /\ pre = [fat |-> FreshVol.fat, disk |-> FreshVol.disk, inodes |-> FreshVol.inodes,
            next |-> FreshVol.next]
  /\ made = << "load", "touch" >>
  /\ links = << >>
  /\ credits = [NoCredits EXCEPT !.link = 1, !.readdir = 1]
  /\ args = [names |-> { NameA }, sizes |-> { }, nums |-> { 2 }, lengths |-> { }]

StampInit ==
  \E t \in Stamps :
    Touched(fat_touch(FreshVol, [size |-> 0, dir |-> FALSE,
                                 atime |-> t, ctime |-> t, mtime |-> t]))

TimeSpec == StampInit /\ [][Link \/ Readdir]_vars

TypeOK ==
  /\ status = "ok" => next = Len(inodes) + 1
  /\ Len(made) = Len(inodes)
  /\ status \in { "ok", "crashed", "hung", "raw", "created", "refused", "closed" }

(***************************************************************************)
(* Vocabulary of the properties.                                           *)
(***************************************************************************)
\* the volume before the last call
PreVol(w) ==
  [fat |-> pre.fat, disk |-> pre.disk, inodes |-> pre.inodes, next |-> pre.next,
   status |-> "ok", big |-> big, w |-> w]

\* the free clusters of a volume, as fat_find_free sees them
FreeOf(v) == { i \in FindFreeFrom..(NumClusters - 1) : fat_read_fat(v, i) = 0 }

\* the k lowest members of a set of numbers, in increasing order
RECURSIVE Lowest(_, _)
Lowest(S, k) ==
  IF k = 0 \/ S = { } THEN << >>
  ELSE LET m == CHOOSE x \in S : \A y \in S : x <= y
       IN << m >> \o Lowest(S \ { m }, k - 1)

\* clusters that a file of `size` bytes needs
ClustersFor(size) == Max(1, CeilDiv(size, fat_clustersize))

\* the FAT entries in which two volumes differ
FatDiff(v1, v2) == { n \in FatEntries : fat_read_fat(v1, n) # fat_read_fat(v2, n) }

Range(seq) == { seq[k] : k \in 1..Len(seq) }

\* the chain of handle h as fat_get_clusters walks it
Chain(v, h) == ChainWalk(v, v.inodes[h].cluster, << >>)

(***************************************************************************)
(* C1.  In every reachable state the walk of the FAT from the first        *)
(* cluster of every issued handle other than the root reaches a value      *)
(* >= FAT_END within num_clusters steps, whatever the reads outside the    *)
(* FAT buffer give.                                                        *)
(***************************************************************************)
ChainEnds(h) ==
  \A w \in Wild : IsChain(Chain(Vol(w), h)) /\ Len(Chain(Vol(w), h)) <= NumClusters

C1_ChainsEnd ==
  status = "ok" => \A h \in 2..(next - 1) : ChainEnds(h)

(***************************************************************************)
(* C2.  A fat_touch on a volume with at least k = max(1, ceil(size /       *)
(* cluster_size)) free clusters returns a new handle whose chain is the k  *)
(* lowest clusters >= 3 that were free before the call, in increasing      *)
(* order, ending in FAT_END; no other FAT entry changes.                   *)
(***************************************************************************)
TouchHadRoom ==
  /\ last.op = "touch"
  /\ Cardinality(FreeOf(PreVol(0))) >= ClustersFor(last.size)

TouchLackedRoom ==
  /\ last.op = "touch"
  /\ Cardinality(FreeOf(PreVol(0))) < ClustersFor(last.size)

C3_TouchFailsWhenFull ==
  TouchLackedRoom => last.ret = 0 /\ next = pre.next /\ inodes = pre.inodes

(***************************************************************************)
(* C4.  A fat_readdir(dir, n) with n >= 2 that returns the entry that      *)
(* fat_link(h, dir, name) made returns the handle h, and appends no record *)
(* to the handle table.                                                    *)
(***************************************************************************)
LinkedAs(dir, name) == { k \in 1..Len(links) : links[k].dir = dir /\ links[k].name = name }

ReaddirFoundLinked ==
  /\ last.op = "readdir" /\ last.num >= 2 /\ status = "ok"
  /\ last.ret # Null
  /\ Cardinality(LinkedAs(last.dir, last.ret.name)) = 1

C4_ReaddirSameHandle ==
  ReaddirFoundLinked =>
    /\ \A k \in LinkedAs(last.dir, last.ret.name) : last.ret.ino = links[k].ino
    /\ next = pre.next

(***************************************************************************)
(* C5.  After a fat_link(h, dir, name) that returned 0 and whose entry     *)
(* block fitted in the clusters the directory had, some fat_readdir(dir,   *)
(* n) returns exactly the bytes of name.                                   *)
(***************************************************************************)
\* the directory as fat_link, fat_readdir and fat_unlink read it
DirBuffer(v, dir) ==
  Filled(Len(fat_get_clusters(v, dir)) * ClusterSlots,
         fat_read(v, dir, Len(fat_get_clusters(v, dir)) * fat_clustersize, 0))

\* the block of name, placed where fat_link places it, ends inside buf
BlockFits(buf, name) ==
  LinkScan(buf \o ZeroCluster, 0, 0, 0, LinkEntries(name)) + LongnameEntries(name) + 1
    <= NumSlots(buf)

\* entry numbers a caller can ask for
EntryNums == 2..(RootCountBig + 2)

LinkedWithRoom ==
  /\ last.op = "link" /\ status = "ok" /\ last.ret = 0
  /\ IsChain(fat_get_clusters(PreVol(0), last.dir))
  /\ BlockFits(DirBuffer(PreVol(0), last.dir), last.name)

C5_NameRoundTrip ==
  LinkedWithRoom =>
    \E n \in EntryNums : fat_readdir(Vol(0), last.dir, n).ret.name = last.name

(***************************************************************************)
(* C6.  A fat_write(h, B, len, off) on a handle h that fat_touch returned, *)
(* with off + len within the size of h, returns len; a fat_read of the     *)
(* same range then gives the bytes of B, every other byte of h reads as    *)
(* before, the FAT and the handle table are unchanged, and only blocks of  *)
(* clusters in the chain of h differ on the disk.                          *)
(***************************************************************************)
WroteInside ==
  /\ last.op = "write"
  /\ made[last.ino] = "touch"
  /\ last.off + last.len <= pre.inodes[last.ino].size

\* byte k (from 0) of handle h
FileByte(v, h, k) == ByteAt(fat_read(v, h, 1, k).data, 0)

BlockOf(d, at) == IF at \in DOMAIN d THEN d[at] ELSE ZeroCluster

ChangedBlocks(d1, d2) ==
  { at \in DOMAIN d1 \cup DOMAIN d2 : BlockOf(d1, at) # BlockOf(d2, at) }

C6_WriteReadBack ==
  WroteInside =>
    /\ status = "ok" /\ last.ret = last.len
    /\ fat = pre.fat /\ inodes = pre.inodes
    /\ \A k \in 0..(pre.inodes[last.ino].size - 1) :
         FileByte(Vol(0), last.ino, k)
           = IF k >= last.off /\ k < last.off + last.len
             THEN ByteAt(IoData, k - last.off)
             ELSE FileByte(PreVol(0), last.ino, k)
    /\ ChangedBlocks(disk, pre.disk)
         \subseteq { ClusterStart(big, c) : c \in Range(Chain(PreVol(0), last.ino)) }

(***************************************************************************)
(* C7.  After a fat_unlink(dir, n) that returned 0 on the entry that       *)
(* fat_link made for a handle h from fat_touch, every cluster of the chain *)
(* of h has the FAT value 0 and no other FAT entry has changed.            *)
(***************************************************************************)
\* the handles that were linked into dir under the name that
\* fat_readdir(dir, num) returned before the last call
Removed ==
  { links[k].ino : k \in LinkedAs(last.dir, fat_readdir(PreVol(0), last.dir, last.num).ret.name) }

UnlinkedTouched ==
  /\ last.op = "unlink" /\ status = "ok" /\ last.ret = 0
  /\ Cardinality(Removed) = 1
  /\ \A h \in Removed : made[h] = "touch" /\ IsChain(Chain(PreVol(0), h))

C7_UnlinkFreesChain ==
  UnlinkedTouched =>
    \A h \in Removed :
      /\ \A c \in Range(Chain(PreVol(0), h)) : fat_read_fat(Vol(0), c) = 0
      /\ FatDiff(Vol(0), PreVol(0)) \subseteq Range(Chain(PreVol(0), h))

(***************************************************************************)
(* C8.  A fat_unlink(dir, n) with n >= 2 that returned 0 removes from the  *)
(* directory exactly the block (long-name entries and short entry) of the  *)
(* entry that fat_readdir(dir, n) returned before the call, and moves the  *)
(* rest of the directory up; this includes directories with slots marked   *)
(* 0xE5, which fat_readdir skips.                                          *)
(***************************************************************************)
Biased(dir, num) == IF dir # 1 THEN num + 2 ELSE num

\* the directory buf without the block of the entry that fat_readdir
\* stops at for num
WithoutEntry(buf, dir, num) ==
  UnlinkCompact(buf, ReaddirWalk(buf, 0, Biased(dir, num)),
                SkipLongname(buf, ReaddirWalk(buf, 0, Biased(dir, num)), 0) + 1)

NameAt(v, dir, k) == fat_readdir(v, dir, k).ret.name

Unlinked ==
  /\ last.op = "unlink" /\ status = "ok" /\ last.ret = 0 /\ last.num >= 2

C8_UnlinkRemovesBlock ==
  Unlinked =>
    DirBuffer(Vol(0), last.dir)
      = WithoutEntry(DirBuffer(PreVol(0), last.dir), last.dir, last.num)

(***************************************************************************)
(* C9.  A fat_link whose entry block does not fit in the clusters of the   *)
(* directory returns 0 after it took one free cluster c, set the FAT entry *)
(* of the directory's last cluster to c and that of c to FAT_END, and      *)
(* changed no other FAT entry; afterwards fat_readdir returns the new name *)
(* and, at their numbers, the names it returned before.                    *)
(***************************************************************************)
LinkedWithoutRoom ==
  /\ last.op = "link"
  /\ IsChain(fat_get_clusters(PreVol(0), last.dir))
  /\ ~BlockFits(DirBuffer(PreVol(0), last.dir), last.name)

LastCluster(v, dir) ==
  fat_get_clusters(v, dir)[Len(fat_get_clusters(v, dir))]

Grown(c) ==
  /\ fat_read_fat(Vol(0), LastCluster(PreVol(0), last.dir)) = c
  /\ fat_read_fat(Vol(0), c) = FAT_END
  /\ FatDiff(Vol(0), PreVol(0)) = { LastCluster(PreVol(0), last.dir), c }

C9_LinkGrowsDirectory ==
  LinkedWithoutRoom =>
    /\ status = "ok" /\ last.ret = 0
    /\ \E c \in FreeOf(PreVol(0)) : Grown(c)
    /\ \E n \in EntryNums : NameAt(Vol(0), last.dir, n) = last.name
    /\ \A n \in EntryNums :
         NameAt(PreVol(0), last.dir, n) # Null.name
           => NameAt(Vol(0), last.dir, n) = NameAt(PreVol(0), last.dir, n)

(***************************************************************************)
(* C10.  While the process runs, for every directory handle d              *)
(* fat_readdir(d, 0) returns "." with ino d and fat_readdir(d, 1) returns  *)
(* ".."; for the root the ino of ".." is 1, and for the directory that a   *)
(* fat_mkdir(parent, name) has just made it is parent.                     *)
(***************************************************************************)
DotDotOf(d) == fat_readdir(Vol(0), d, 1).ret

C10_DotAndDotDot ==
  status = "ok" =>
    /\ \A d \in DirHandles :
         /\ fat_readdir(Vol(0), d, 0).ret = [name |-> << Dot >>, ino |-> d]
         /\ DotDotOf(d).name = << Dot, Dot >>
    /\ DotDotOf(1).ino = 1
    /\ (last.op = "mkdir" /\ last.ret = 0) => DotDotOf(pre.next).ino = last.dir

(***************************************************************************)
(* C11.  For every partition length that fat_hook_create formats (below    *)
(* 16 MiB), the BPB gives fat_num_clusters < 4085 and fat_bits returns 12, *)
(* so that the FAT code treats the volume as FAT12.                        *)
(***************************************************************************)
Formatted == last.op = "create" /\ status # "refused"

C11_FormatsAsFat12 ==
  Formatted =>
    /\ fat_num_clusters(last.ret) < Fat12Clusters
    /\ fat_bits(last.ret) = Fat12Bits

(***************************************************************************)
(* C12.  For every BPB that fat_hook_create produces, sectors_per_fat * 8  *)
(* * bytes_per_sector >= 12 * fat_num_clusters, and the last FAT entry     *)
(* that fat_find_free reads (index fat_num_clusters - 1) lies inside the   *)
(* FAT buffer of sectors_per_fat * 512 bytes.                              *)
(***************************************************************************)
C12_FatHoldsEveryCluster ==
  Formatted =>
    /\ last.ret.sectors_per_fat * 8 * last.ret.bytes_per_sector
         >= Fat12Bits * fat_num_clusters(last.ret)
    /\ fat_num_clusters(last.ret) > FindFreeFrom
         => FatOffset(fat_num_clusters(last.ret) - 1) + 1
              < last.ret.sectors_per_fat * BLOCK_SIZE

(***************************************************************************)
(* C13.  After fat_hook_create, fat_hook_close and fat_hook_load on a      *)
(* partition that held bytes of an earlier use, the root is handle 1 and   *)
(* the next handle 2, fat_readdir(root, 0) returns ".", fat_readdir(root,  *)
(* 1) returns ".." and fat_readdir(root, 2) returns null.                  *)
(***************************************************************************)
\* the caller formatted the raw partition, closed it and has just mounted it
FormattedAndMounted == last.op = "load" /\ args.lengths # { }

C13_FormatThenMount ==
  FormattedAndMounted =>
    /\ status = "ok" /\ next = 2 /\ inodes = << RootInode >>
    /\ \A w \in Wild :
         /\ fat_readdir(Vol(w), 1, 0).ret = [name |-> << Dot >>, ino |-> 1]
         /\ fat_readdir(Vol(w), 1, 1).ret = [name |-> << Dot, Dot >>, ino |-> 1]
         /\ fat_readdir(Vol(w), 1, 2).ret = Null

(***************************************************************************)
(* C14.  A fat_hook_close leaves each of the fat_count FAT copies on the   *)
(* partition equal to the in-memory FAT as it was at the call, and the     *)
(* fat_hook_load that follows produces an in-memory FAT equal to it, byte  *)
(* for byte.                                                               *)
(***************************************************************************)
C14_CloseFlushesFat ==
  [][/\ last'.op = "close" => \A i \in 1..FatCount : fats'[i] = fat
     /\ last'.op = "load" => fat' = pre.fat /\ \A i \in 1..FatCount : fats'[i] = fat']_vars

\* a volume was mounted again after a session that allocated clusters
C14_Witness ==
  /\ last.op = "load" /\ status = "ok"
  /\ FreeOf(Vol(0)) # FreeOf([Vol(0) EXCEPT !.fat = FormattedFat(big)])
  /\ \A i \in 1..FatCount : fats[i] = fat

(***************************************************************************)
(* C15.  A fat_rmdir(dir, n) on the entry of a directory that holds an     *)
(* entry beyond "." and ".." returns 1 and leaves the FAT and the          *)
(* directories on the disk unchanged.                                      *)
(***************************************************************************)
\* the handles whose entry in last.dir has the name that fat_readdir(dir,
\* num) returned before the last call
Target ==
  { links[k].ino :
      k \in LinkedAs(last.dir, fat_readdir(PreVol(0), last.dir, last.num).ret.name) }

RmdirOfFull ==
  /\ last.op = "rmdir" /\ last.num >= 2
  /\ Cardinality(Target) = 1
  /\ \A h \in Target : made[h] = "mkdir" /\ \E k \in 1..Len(links) : links[k].dir = h

C15_RmdirKeepsFull ==
  RmdirOfFull =>
    /\ status = "ok" /\ last.ret = 1
    /\ fat = pre.fat /\ disk = pre.disk

(***************************************************************************)
(* C16.  A fat_unlink(dir, n) with n = 0 or 1, or with no n-th entry in    *)
(* dir (fat_readdir(dir, n) returns null), returns 1 and leaves the        *)
(* directory, the FAT and the handle table unchanged.                      *)
(***************************************************************************)
UnlinkOfNothing ==
  /\ last.op = "unlink"
  /\ \/ last.num < 2
     \/ \A w \in Wild : fat_readdir(PreVol(w), last.dir, last.num) = NoEntry(PreVol(w))

C16_UnlinkFails ==
  UnlinkOfNothing =>
    /\ status = "ok" /\ last.ret = 1
    /\ fat = pre.fat /\ disk = pre.disk
    /\ inodes = pre.inodes /\ next = pre.next

(***************************************************************************)
(* C17.  A fat_read(h, buf, len, off) with len > 0 returns at most len and *)
(* at most the bytes that remain from off, for every off: 0 when off is    *)
(* the size or beyond it, and size - off when off + len exceeds the size.  *)
(***************************************************************************)
\* the size fat_read takes for the handle of the last call
ReadSize == IoSize(PreVol(0), last.ino, fat_get_clusters(PreVol(0), last.ino))

ReadOfSome ==
  /\ last.op = "read" /\ last.len > 0
  /\ made[last.ino] = "touch" /\ IsChain(Chain(PreVol(0), last.ino))

C17_ReadClamps ==
  ReadOfSome =>
    /\ status = "ok"
    /\ last.ret.len <= last.len
    /\ last.ret.len <= Max(0, ReadSize - last.off)
    /\ last.off >= ReadSize => last.ret.len = 0
    /\ (last.off < ReadSize /\ last.off + last.len > ReadSize)
         => last.ret.len = ReadSize - last.off

(***************************************************************************)
(* C18.  For every partition of L sectors with L * 512 < 16 MiB,           *)
(* fat_hook_create leaves a BPB with bytes_per_sector 512,                 *)
(* sectors_per_cluster 8, reserved_sectors 4, fat_count 2, root_count 512  *)
(* and media descriptor 0xF8 if L * 512 > 4 MiB, else 240 and 0xF0,        *)
(* total_sectors_small L and total_sectors_large 0, and an in-memory FAT   *)
(* with entry 0 = 0xF00 | media descriptor, entry 1 = 0xFFF and zeros in   *)
(* every other entry.                                                      *)
(***************************************************************************)
\* the partition of the last fat_hook_create is larger than 4 MiB
Large == last.len * 512 > 4 * 1024 * 1024

C18_CreateWritesBpb ==
  Formatted =>
    /\ status = "created"
    /\ last.ret.bytes_per_sector = 512
    /\ last.ret.sectors_per_cluster = 8
    /\ last.ret.reserved_sectors = 4
    /\ last.ret.fat_count = 2
    /\ last.ret.root_count = IF Large THEN 512 ELSE 240
    /\ last.ret.media_descriptor = IF Large THEN 248 ELSE 240
    /\ last.ret.total_sectors_small = last.len
    /\ last.ret.total_sectors_large = 0
    /\ DOMAIN fat = 0..(FatBytes - 1)
    /\ fat_read_fat([fat |-> fat, w |-> 0], 0) = 3840 + last.ret.media_descriptor
    /\ fat_read_fat([fat |-> fat, w |-> 0], 1) = 4095
    /\ \A o \in 3..(FatBytes - 1) : fat[o] = 0

(***************************************************************************)
(* C19.  A fat_link(h, dir, name) whose block fits in the clusters of dir  *)
(* leaves every entry that was live before the call in its slot, byte for  *)
(* byte, and where it changes slots before the end-of-directory marker,    *)
(* the E + 1 slots of the block (E = ceil(len(name) / 13) long-name        *)
(* entries and the short entry) were a run of deleted slots.               *)
(***************************************************************************)
\* the slot of the end-of-directory marker of buf
EndMarker(buf) ==
  IF \E de \in 0..(NumSlots(buf) - 1) : SlotByte(buf, de, 0, 0) = 0
  THEN CHOOSE de \in 0..(NumSlots(buf) - 1) :
         /\ SlotByte(buf, de, 0, 0) = 0
         /\ \A k \in 0..(de - 1) : SlotByte(buf, k, 0, 0) # 0
  ELSE NumSlots(buf)

LiveSlots(buf) ==
  { de \in 0..(EndMarker(buf) - 1) : SlotByte(buf, de, 0, 0) # Deleted }

\* the slots below the end-of-directory marker of old that differ in new
Rewritten(old, new) ==
  { de \in 0..(EndMarker(old) - 1) : de >= NumSlots(new) \/ new[de + 1] # old[de + 1] }

LinkedInto ==
  /\ last.op = "link" /\ status = "ok" /\ last.ret = 0
  /\ IsChain(fat_get_clusters(PreVol(0), last.dir))
  /\ BlockFits(DirBuffer(PreVol(0), last.dir), last.name)

C19_LinkKeepsLiveEntries ==
  LinkedInto =>
    /\ LiveSlots(DirBuffer(PreVol(0), last.dir))
         \cap Rewritten(DirBuffer(PreVol(0), last.dir), DirBuffer(Vol(0), last.dir)) = { }
    /\ \A de \in Rewritten(DirBuffer(PreVol(0), last.dir), DirBuffer(Vol(0), last.dir)) :
         \E p \in 0..de :
           /\ de <= p + LongnameEntries(last.name)
           /\ \A k \in p..(p + LongnameEntries(last.name)) :
                /\ k < EndMarker(DirBuffer(PreVol(0), last.dir))
                /\ SlotByte(DirBuffer(PreVol(0), last.dir), k, 0, 0) = Deleted

(***************************************************************************)
(* C20.  For a fat_link, fat_unlink or fat_readdir on the root directory,  *)
(* on volumes with the small and with the large root_count, the i-th       *)
(* cluster of the root's cluster list is read and written at cluster i of  *)
(* the root directory area, inside that area, and the call changes no      *)
(* block of the disk outside it.                                           *)
(***************************************************************************)
\* the last call read the root directory into its buffer
RootCall ==
  /\ last.dir = 1
  /\ \/ last.op = "link" /\ last.ino # 0
     \/ last.op \in { "unlink", "readdir" } /\ last.num >= 2

\* where the blocks of the root directory area start
RootArea(b) == { at \in 0..(fat_root_sectors(b) - 1) : at % ClusterSlots = 0 }

C20_RootStaysInRootArea ==
  RootCall =>
    /\ \A i \in 1..Len(fat_get_clusters(PreVol(0), 1)) :
         /\ ClusterStart(big, fat_get_clusters(PreVol(0), 1)[i]) = (i - 1) * ClusterSlots
         /\ ClusterStart(big, fat_get_clusters(PreVol(0), 1)[i]) \in RootArea(big)
    /\ ChangedBlocks(disk, pre.disk) \subseteq RootArea(big)

(***************************************************************************)
(* C21.  After fat_write_fat(n, v) of a 12-bit value v to an entry n       *)
(* inside the table, fat_read_fat(n) gives v & 0xFFF and fat_read_fat(m)   *)
(* gives for every other entry m what it gave before the call, for even    *)
(* and for odd n.                                                          *)
(***************************************************************************)
C21_SetKeepsNeighbours ==
  last.op = "set" =>
    /\ fat_read_fat(Vol(0), last.num) = last.size % 4096
    /\ \A m \in FatEntries \ { last.num } :
         fat_read_fat(Vol(0), m) = fat_read_fat(PreVol(0), m)

\* an odd entry was changed whose even neighbour has bits in the byte the
\* two share
C21_Witness ==
  /\ last.op = "set" /\ last.num % 2 = 1 /\ fat # pre.fat
  /\ fat_read_fat(PreVol(0), last.num - 1) \div 256 # 0
  /\ fat_read_fat(Vol(0), last.num) = last.size

(***************************************************************************)
(* C22.  In every state of a mounted volume, every long-name entry below   *)
(* the end-of-directory marker of the root and of every directory that     *)
(* fat_mkdir made lies in a block of E consecutive long-name entries with  *)
(* the sequence bytes E | 0x40, E - 1, .., 1, followed at once by a live   *)
(* short entry whose name has the checksum that every entry of the block   *)
(* carries.                                                                *)
(***************************************************************************)
IsLongname(buf, de) ==
  /\ de < EndMarker(buf)
  /\ SlotByte(buf, de, fat_longname_t.num, 0) # Deleted
  /\ SlotByte(buf, de, fat_longname_t.attrib, 0) = FAT_DIR_LONGNAME

IsLiveShort(buf, de) ==
  /\ de < EndMarker(buf)
  /\ SlotByte(buf, de, fat_dir_t.name, 0) # Deleted
  /\ SlotByte(buf, de, fat_dir_t.attrib, 0) # FAT_DIR_LONGNAME

\* the sequence byte of entry k (from 0) of a block of E entries
SequenceByte(E, k) == IF k = 0 THEN E + 64 ELSE E - k

\* slots s .. s + E - 1 of buf are a whole long-name block and slot s + E
\* is its short entry
IsBlock(buf, s, E) ==
  /\ \A k \in 0..(E - 1) :
       /\ IsLongname(buf, s + k)
       /\ SlotByte(buf, s + k, fat_longname_t.num, 0) = SequenceByte(E, k)
       /\ SlotByte(buf, s + k, fat_longname_t.checksum, 0)
            = fat_checksum(SubSeq(buf[s + E + 1], 1, ShortNameLen))
  /\ IsLiveShort(buf, s + E)

LongnamesWhole(buf) ==
  \A de \in 0..(NumSlots(buf) - 1) :
    IsLongname(buf, de) =>
      \E s \in 0..de, E \in 1..NumSlots(buf) :
        de < s + E /\ s + E < NumSlots(buf) /\ IsBlock(buf, s, E)

\* the root, and the directories made by fat_mkdir whose chain can be read
ListedDirs ==
  { d \in 1..Len(inodes) :
      /\ d = 1 \/ made[d] = "mkdir"
      /\ IsChain(fat_get_clusters(Vol(0), d)) }

C22_LongnameBlocksWhole ==
  status = "ok" => \A d \in ListedDirs : LongnamesWhole(DirBuffer(Vol(0), d))

(***************************************************************************)
(* C23.  Between fat_hook_load and fat_hook_close the handle table holds   *)
(* next - 1 records; a call never removes a record nor changes the first   *)
(* cluster or the type of the record of a handle issued before it; and the *)
(* handle that fat_touch, or fat_readdir with n >= 2, returns is greater   *)
(* than every handle issued before and resolves to a record.               *)
(***************************************************************************)
\* h was not issued before the step and has a record after it
Fresh(h) == h > next - 1 /\ h <= Len(inodes')

C23_HandlesAppendOnly ==
  [][(status = "ok" /\ status' = "ok") =>
       /\ Len(inodes) = next - 1 /\ Len(inodes') = next' - 1
       /\ next' >= next
       /\ \A h \in 1..(next - 1) :
            /\ inodes'[h].cluster = inodes[h].cluster
            /\ inodes'[h].type = inodes[h].type
       /\ last'.op = "touch" => Fresh(last'.ret)
       /\ (last'.op = "readdir" /\ last'.num >= 2 /\ last'.ret # Null)
            => Fresh(last'.ret.ino)]_vars

\* fat_readdir has issued a handle on a volume where fat_touch and an
\* earlier fat_readdir had issued handles
C23_Witness ==
  /\ status = "ok" /\ last.op = "readdir" /\ last.num >= 2 /\ last.ret # Null
  /\ last.ret.ino = next - 1
  /\ \E h, g \in 2..(next - 2) : made[h] = "touch" /\ made[g] = "readdir"

(***************************************************************************)
(* C24.  For a file with timestamps in the years 1980 to 2107, the handle  *)
(* that fat_readdir builds from the entry fat_link wrote has the same      *)
(* year, month, day, hour and minute of creation and modification, the     *)
(* same second up to 2 seconds, and the same date of access; and encoding  *)
(* its times again gives the words of the entry.                           *)
(***************************************************************************)
SameDay(a, b) ==
  /\ gmtime(a).tm_year = gmtime(b).tm_year
  /\ gmtime(a).tm_mon = gmtime(b).tm_mon
  /\ gmtime(a).tm_mday = gmtime(b).tm_mday

SameTwoSeconds(a, b) ==
  /\ SameDay(a, b)
  /\ gmtime(a).tm_hour = gmtime(b).tm_hour
  /\ gmtime(a).tm_min = gmtime(b).tm_min
  /\ gmtime(a).tm_sec \div 2 = gmtime(b).tm_sec \div 2

SameWords(a, b) == EncodeTime(a) = EncodeTime(b) /\ EncodeDate(a) = EncodeDate(b)

\* fat_readdir returned the entry of a file that fat_touch made
ReaddirFoundTouched ==
  /\ ReaddirFoundLinked
  /\ \A k \in LinkedAs(last.dir, last.ret.name) :
       /\ made[links[k].ino] = "touch"
       /\ gmtime(inodes[links[k].ino].ctime).tm_year + 1900 \in 1980..2107

C24_TimeRoundTrip ==
  ReaddirFoundTouched =>
    \A k \in LinkedAs(last.dir, last.ret.name) :
      /\ SameTwoSeconds(inodes[links[k].ino].ctime, inodes[last.ret.ino].ctime)
      /\ SameTwoSeconds(inodes[links[k].ino].mtime, inodes[last.ret.ino].mtime)
      /\ SameDay(inodes[links[k].ino].atime, inodes[last.ret.ino].atime)
      /\ SameWords(inodes[links[k].ino].ctime, inodes[last.ret.ino].ctime)
      /\ SameWords(inodes[links[k].ino].mtime, inodes[last.ret.ino].mtime)
      /\ EncodeDate(inodes[links[k].ino].atime) = EncodeDate(inodes[last.ret.ino].atime)

====
